---- MODULE Spec2Model ----
(***************************************************************************)
(* da2cf: reconciliation of a DirectAdmin zone (source of truth) into a    *)
(* Cloudflare zone.  The module models                                     *)
(*   - the record normalizers and the identity key   (utils/dns.py)        *)
(*   - the proxy policy                              (models.py)           *)
(*   - the planner  SyncService._compute_plan        (sync_service.py)     *)
(*   - the executor SyncService.apply_plan and its per-domain lock table   *)
(*   - the two provider clients as far as the service sees them.           *)
(*                                                                         *)
(* Strings are sequences of one-character strings, so that the string      *)
(* methods the code calls (upper, lower, strip, rstrip, split, startswith, *)
(* fnmatch) are computed and not assumed.  Optional[T] is <<>> for None    *)
(* and <<v>> for a value v.                                                *)
(***************************************************************************)
EXTENDS Integers, Sequences, FiniteSets, Bags, TLC

\* ------------------------------------------------------------------------
\* Python values
\* ------------------------------------------------------------------------

None == <<>>

Some(v) == <<v>>

\* `x or d` for an Optional[int] x: None and 0 are both falsy.
OrZero(x) == IF x = None THEN 0 ELSE x[1]

\* bool(x) for an Optional[str]: None and "" are falsy.
TruthyStr(x) == x # None /\ x[1] # <<>>

\* bool(x) for an Optional[int].
TruthyInt(x) == x # None /\ x[1] # 0

Range(s) == {s[i] : i \in 1..Len(s)}

\* ------------------------------------------------------------------------
\* Characters.  Ascii lists the characters the model uses in code-point
\* order; CharOrd is the position in it, which orders strings as Python does.
\* ------------------------------------------------------------------------

UpperAlpha == <<"A","B","C","D","E","F","G","H","I","J","K","L","M",
                "N","O","P","Q","R","S","T","U","V","W","X","Y","Z">>

LowerAlpha == <<"a","b","c","d","e","f","g","h","i","j","k","l","m",
                "n","o","p","q","r","s","t","u","v","w","x","y","z">>

Digits == <<"0","1","2","3","4","5","6","7","8","9">>

Ascii == <<" ", "\"", "*", "-", ".">> \o Digits \o <<":", "?", "@">>
            \o UpperAlpha \o <<"_">> \o LowerAlpha

CharOrd(c) == CHOOSE i \in 1..Len(Ascii) : Ascii[i] = c

lowerChar(c) ==
    IF \E i \in 1..Len(UpperAlpha) : UpperAlpha[i] = c
    THEN LowerAlpha[CHOOSE i \in 1..Len(UpperAlpha) : UpperAlpha[i] = c]
    ELSE c

upperChar(c) ==
    IF \E i \in 1..Len(LowerAlpha) : LowerAlpha[i] = c
    THEN UpperAlpha[CHOOSE i \in 1..Len(LowerAlpha) : LowerAlpha[i] = c]
    ELSE c

\* str.lower / str.upper
lower(s) == [i \in 1..Len(s) |-> lowerChar(s[i])]

upper(s) == [i \in 1..Len(s) |-> upperChar(s[i])]

\* str.startswith / str.endswith
startswith(s, p) == Len(p) <= Len(s) /\ SubSeq(s, 1, Len(p)) = p

endswith(s, p) == Len(p) <= Len(s) /\ SubSeq(s, Len(s) - Len(p) + 1, Len(s)) = p

\* str.rstrip(chars) and str.lstrip(chars), chars a set of characters
RECURSIVE rstrip(_, _)
rstrip(s, chars) ==
    IF s # <<>> /\ s[Len(s)] \in chars THEN rstrip(SubSeq(s, 1, Len(s) - 1), chars) ELSE s

RECURSIVE lstrip(_, _)
lstrip(s, chars) ==
    IF s # <<>> /\ s[1] \in chars THEN lstrip(Tail(s), chars) ELSE s

Whitespace == {" ", "\t"}

\* str.strip()
strip(s) == lstrip(rstrip(s, Whitespace), Whitespace)

\* str.split(sep) for a one-character sep: every separator cuts, empty
\* fields are kept ("a..b".split(".") = ["a", "", "b"]).  The string is
\* evaluated once, as the value s.
RECURSIVE split_on(_, _)
split_on(str, sep) ==
    CHOOSE parts \in
        {IF \A i \in 1..Len(s) : s[i] # sep
         THEN <<s>>
         ELSE LET i == CHOOSE j \in 1..Len(s) :
                          s[j] = sep /\ \A k \in 1..(j - 1) : s[k] # sep
              IN  <<SubSeq(s, 1, i - 1)>> \o split_on(SubSeq(s, i + 1, Len(s)), sep) :
         s \in {str}} : TRUE

\* str.split() with no argument: runs of whitespace cut, no empty fields.
RECURSIVE split_ws(_)
split_ws(s) ==
    LET t == lstrip(s, Whitespace)
    IN  IF t = <<>>
        THEN <<>>
        ELSE IF \A i \in 1..Len(t) : t[i] \notin Whitespace
             THEN <<t>>
             ELSE LET i == CHOOSE j \in 1..Len(t) :
                              t[j] \in Whitespace /\ \A k \in 1..(j - 1) : t[k] \notin Whitespace
                  IN  <<SubSeq(t, 1, i - 1)>> \o split_ws(SubSeq(t, i + 1, Len(t)))

\* sep.join(parts)
RECURSIVE join(_, _)
join(sep, parts) ==
    IF parts = <<>> THEN <<>>
    ELSE IF Len(parts) = 1 THEN parts[1]
    ELSE parts[1] \o sep \o join(sep, Tail(parts))

\* Python's < on strings (lexicographic by code point).
RECURSIVE StrLess(_, _)
StrLess(a, b) ==
    IF b = <<>> THEN FALSE
    ELSE IF a = <<>> THEN TRUE
    ELSE IF a[1] # b[1] THEN CharOrd(a[1]) < CharOrd(b[1])
    ELSE StrLess(Tail(a), Tail(b))

\* fnmatch.fnmatch(name, pat) on a POSIX host (case-sensitive), for patterns
\* made of literal characters, "*" and "?".
RECURSIVE fnmatch(_, _)
fnmatch(name, pat) ==
    IF pat = <<>> THEN name = <<>>
    ELSE IF pat[1] = "*"
         THEN fnmatch(name, Tail(pat)) \/ (name # <<>> /\ fnmatch(Tail(name), pat))
         ELSE name # <<>> /\ (pat[1] = "?" \/ pat[1] = name[1])
                          /\ fnmatch(Tail(name), Tail(pat))

\* ------------------------------------------------------------------------
\* String constants of the program
\* ------------------------------------------------------------------------

T_A == <<"A">>

T_AAAA == <<"A","A","A","A">>

T_CNAME == <<"C","N","A","M","E">>

T_TXT == <<"T","X","T">>

T_MX == <<"M","X">>

T_SRV == <<"S","R","V">>

T_CAA == <<"C","A","A">>

T_NS == <<"N","S">>

T_SOA == <<"S","O","A">>

\* a record type outside the default managed set (config.py)
T_PTR == <<"P","T","R">>

S_at == <<"@">>

S_www == <<"w","w","w">>

S_acme == <<"_","a","c","m","e","-","c","h","a","l","l","e","n","g","e">>

S_acme_dot == S_acme \o <<".">>

S_de5 == <<".","d","e","5",".","n","e","t">>

S_None == <<"N","o","n","e">>

S_True == <<"T","r","u","e">>

S_False == <<"F","a","l","s","e">>

S_zone_not_found == <<"C","l","o","u","d","f","l","a","r","e"," ","z","o","n","e"," ",
                      "n","o","t"," ","f","o","u","n","d">>

\* str(x) for an int >= 0, an Optional[int], an Optional[bool]
RECURSIVE str_int(_)
str_int(n) == IF n < 10 THEN <<Digits[n + 1]>> ELSE str_int(n \div 10) \o <<Digits[(n % 10) + 1]>>

str_opt_int(x) == IF x = None THEN S_None ELSE str_int(x[1])

str_bool(b) == IF b THEN S_True ELSE S_False

str_opt_bool(x) == IF x = None THEN S_None ELSE str_bool(x[1])

\* ------------------------------------------------------------------------
\* models.py: DNSRecord, ProxyPolicy, PlanOperation, SyncPlan
\* ------------------------------------------------------------------------

DNSRecord(type, name, fqdn, content, ttl, priority, proxied, comment, cf_id) ==
    [type |-> type, name |-> name, fqdn |-> fqdn, content |-> content, ttl |-> ttl,
     priority |-> priority, proxied |-> proxied, comment |-> comment, cf_id |-> cf_id]

ProxyPolicy(a, aaaa, cname, host, sub) ==
    [proxy_a |-> a, proxy_aaaa |-> aaaa, proxy_cname |-> cname,
     proxy_host |-> host, proxy_sub |-> sub]

\* ProxyPolicy.desired_proxied: Optional[bool]
\* desired_proxied with the host toggle applied to every name.
desired_proxied_host_only(policy, record) ==
    LET t == upper(record.type)
        type_flag == IF t = T_A THEN policy.proxy_a
                     ELSE IF t = T_AAAA THEN policy.proxy_aaaa
                     ELSE policy.proxy_cname
    IN  IF t \notin {T_A, T_AAAA, T_CNAME} THEN None
        ELSE IF ~type_flag THEN Some(FALSE)
        ELSE Some(policy.proxy_host)

desired_proxied(policy, record) ==
    LET t == upper(record.type)
        type_flag == IF t = T_A THEN policy.proxy_a
                     ELSE IF t = T_AAAA THEN policy.proxy_aaaa
                     ELSE policy.proxy_cname
        name == lower(record.name)
        is_host == name \in {S_at, S_www, <<>>}
    IN  IF t \notin {T_A, T_AAAA, T_CNAME} THEN None
        ELSE IF ~type_flag THEN Some(FALSE)
        ELSE IF is_host THEN Some(policy.proxy_host)
        ELSE Some(policy.proxy_sub)

\* changes is the dict field -> (old, new); None is the empty dict <<>>.
PlanOperation(action, record, current, changes) ==
    [action |-> action, record |-> record, current |-> current, changes |-> changes]

SyncPlan(domain, creates, updates, deletes, noops, skips) ==
    [domain |-> domain, creates |-> creates, updates |-> updates,
     deletes |-> deletes, noops |-> noops, skips |-> skips]

\* ------------------------------------------------------------------------
\* utils/dns.py
\* ------------------------------------------------------------------------

\* normalize_name: <<rel, fqdn>>
\* normalize_name without the zone name among the apex names.
normalize_name_zone_relative(name, domain0) ==
    LET domain == lower(rstrip(domain0, {"."}))
        raw == rstrip(strip(name), {"."})
        rel == SubSeq(raw, 1, Len(raw) - (Len(domain) + 1))
    IN  IF raw \in {<<>>, S_at} THEN <<S_at, domain>>
        ELSE IF endswith(lower(raw), <<".">> \o domain) THEN <<rel, rel \o <<".">> \o domain>>
        ELSE IF "." \notin Range(raw) THEN <<raw, raw \o <<".">> \o domain>>
        ELSE <<raw, raw>>

normalize_name(name, domain0) ==
    LET domain == lower(rstrip(domain0, {"."}))
        raw == rstrip(strip(name), {"."})
        rel == SubSeq(raw, 1, Len(raw) - (Len(domain) + 1))
    IN  IF raw \in {<<>>, S_at, domain} THEN <<S_at, domain>>
        ELSE IF endswith(lower(raw), <<".">> \o domain) THEN <<rel, rel \o <<".">> \o domain>>
        ELSE IF "." \notin Range(raw) THEN <<raw, raw \o <<".">> \o domain>>
        ELSE <<raw, raw>>

normalize_txt_content(content) ==
    LET stripped == strip(content)
        inner == IF startswith(stripped, <<"\"">>) /\ endswith(stripped, <<"\"">>)
                 THEN SubSeq(stripped, 2, Len(stripped) - 1)
                 ELSE stripped
    IN  join(<<" ">>, split_ws(inner))

\* A source row after the response was parsed: the keys name, type, value,
\* ttl, priority; a missing key (or a null) is None.  ttl and priority are
\* already integers, as _parse_legacy_dns passes them.
DaRow(name, type, value, ttl, priority) ==
    [name |-> name, type |-> type, value |-> value, ttl |-> ttl, priority |-> priority]

normalize_da_record(row, domain) ==
    LET rtype == upper(IF TruthyStr(row.type) THEN row.type[1] ELSE <<>>)
        name == IF TruthyStr(row.name) THEN row.name[1] ELSE S_at
        value0 == IF TruthyStr(row.value) THEN row.value[1] ELSE <<>>
        nn == normalize_name(name, domain)
        value == IF rtype = T_TXT THEN normalize_txt_content(value0)
                 ELSE IF rtype = T_CNAME THEN rstrip(value0, {"."})
                 ELSE value0
    IN  DNSRecord(rtype, nn[1], nn[2], value, row.ttl, row.priority, None, None, None)

\* A target row as the target returns it: every key Optional but the strings
\* type, name, content (absent reads as "").
CfRow(id, type, name, content, ttl, priority, proxied, comment) ==
    [id |-> id, type |-> type, name |-> name, content |-> content, ttl |-> ttl,
     priority |-> priority, proxied |-> proxied, comment |-> comment]

\* fqdn and parts are evaluated once.
normalize_cf_record(row) ==
    CHOOSE rec \in
        {LET rtype == upper(row.type)
             n == Len(parts)
             rel == IF endswith(fqdn, S_de5) /\ n >= 3
                    THEN IF n = 3 THEN S_at ELSE join(<<".">>, SubSeq(parts, 1, n - 3))
                    ELSE IF n > 2 THEN join(<<".">>, SubSeq(parts, 1, n - 2))
                    ELSE IF n = 2 THEN S_at
                    ELSE fqdn
             content == IF rtype = T_TXT THEN normalize_txt_content(row.content)
                        ELSE IF rtype = T_CNAME THEN rstrip(row.content, {"."})
                        ELSE row.content
         IN  DNSRecord(rtype, rel, fqdn, content, row.ttl, row.priority, row.proxied,
                       row.comment, row.id) :
         fqdn \in {lower(rstrip(row.name, {"."}))},
         parts \in {split_on(lower(rstrip(row.name, {"."})), ".")}} : TRUE

\* A key that holds the priority of every record type.
record_key_any_priority(record) ==
    <<upper(record.type), lower(record.fqdn), OrZero(record.priority)>>

\* record_key: (type, fqdn, priority)
record_key(record) ==
    LET t == upper(record.type)
    IN  <<t, lower(record.fqdn), IF t \in {T_MX, T_SRV} THEN OrZero(record.priority) ELSE 0>>

should_exclude(record, patterns) ==
    \E i \in 1..Len(patterns) :
        fnmatch(record.name, patterns[i]) \/ fnmatch(record.fqdn, patterns[i])

\* Python's < on identity keys (tuples compare lexicographically).
KeyLess(a, b) ==
    IF a[1] # b[1] THEN StrLess(a[1], b[1])
    ELSE IF a[2] # b[2] THEN StrLess(a[2], b[2])
    ELSE a[3] < b[3]

\* The keys in descending order.
RECURSIVE sorted_descending(_)
sorted_descending(keys) ==
    IF keys = {} THEN <<>>
    ELSE LET m == CHOOSE k \in keys : \A o \in keys \ {k} : KeyLess(o, k)
         IN  <<m>> \o sorted_descending(keys \ {m})

\* sorted(keys)
RECURSIVE sorted(_)
sorted(keys) ==
    IF keys = {} THEN <<>>
    ELSE LET m == CHOOSE k \in keys : \A o \in keys \ {k} : KeyLess(k, o)
         IN  <<m>> \o sorted(keys \ {m})

\* ------------------------------------------------------------------------
\* sync_service.py: the planner
\* ------------------------------------------------------------------------

_normalized_content(record) ==
    IF upper(record.type) = T_TXT THEN record.content
    ELSE IF upper(record.type) = T_CNAME THEN rstrip(record.content, {"."})
    ELSE record.content

\* The ACME test of the two filter loops.
is_acme_challenge(rec) == startswith(rec.name, S_acme) \/ startswith(rec.fqdn, S_acme_dot)

\* The filter without its exclusion test.
kept_despite_pattern(rec, exclude_patterns) == upper(rec.type) \notin {T_NS, T_SOA}

\* The filter without its NS/SOA test.
kept_any_type(rec, exclude_patterns) ==
    is_acme_challenge(rec) \/ ~should_exclude(rec, exclude_patterns)

\* The filter of the two loops: a record is dropped (continue) when its type
\* is NS or SOA, or when it is no ACME record and an exclusion pattern matches.
kept(rec, exclude_patterns) ==
    /\ upper(rec.type) \notin {T_NS, T_SOA}
    /\ (is_acme_challenge(rec) \/ ~should_exclude(rec, exclude_patterns))

\* rec.proxied = desired_proxied, when the policy applies to the type.
\* The desired record as it came in, its proxied field not overwritten.
without_policy(rec, proxy_policy) == rec

with_policy(rec, proxy_policy) ==
    LET p == desired_proxied(proxy_policy, rec)
    IN  IF p # None THEN [rec EXCEPT !.proxied = p] ELSE rec

\* The desired input list as _compute_plan leaves it: the kept records are
\* the caller's objects, and the loop assigns their proxied field in place.
desired_after(desired, proxy_policy, exclude_patterns) ==
    [i \in 1..Len(desired) |->
        IF kept(desired[i], exclude_patterns) THEN with_policy(desired[i], proxy_policy)
        ELSE desired[i]]

KeepAll(list, exclude_patterns) == SelectSeq(list, LAMBDA r : kept(r, exclude_patterns))

\* map[record_key(rec)] = rec over a list: a later record overwrites.
\* A map in which the first record of a key stays.
record_map_first(list) ==
    [k \in {record_key(list[i]) : i \in 1..Len(list)} |->
        list[CHOOSE i \in 1..Len(list) :
                 /\ record_key(list[i]) = k
                 /\ \A j \in 1..(i - 1) : record_key(list[j]) # k]]

record_map(list) ==
    [k \in {record_key(list[i]) : i \in 1..Len(list)} |->
        list[CHOOSE i \in 1..Len(list) :
                 /\ record_key(list[i]) = k
                 /\ \A j \in (i + 1)..Len(list) : record_key(list[j]) # k]]

ChangeFields == {"content", "ttl", "priority", "proxied"}

\* The changes dict of a key present on both sides.
\* A change set that looks at the content only.
changes_of_content_only(desired_rec, current_rec, proxy_policy) ==
    IF _normalized_content(desired_rec) # _normalized_content(current_rec)
    THEN [f \in {"content"} |-> <<current_rec.content, desired_rec.content>>]
    ELSE <<>>

changes_of(desired_rec, current_rec, proxy_policy) ==
    LET dp == desired_proxied(proxy_policy, desired_rec)
        differs(f) ==
            CASE f = "content" ->
                   _normalized_content(desired_rec) # _normalized_content(current_rec)
              [] f = "ttl" -> OrZero(desired_rec.ttl) # OrZero(current_rec.ttl)
              [] f = "priority" -> OrZero(desired_rec.priority) # OrZero(current_rec.priority)
              [] f = "proxied" ->
                   /\ dp # None
                   /\ (IF current_rec.proxied = None THEN FALSE ELSE current_rec.proxied[1]) # dp[1]
        pair(f) ==
            CASE f = "content" -> <<current_rec.content, desired_rec.content>>
              [] f = "ttl" -> <<str_opt_int(current_rec.ttl), str_opt_int(desired_rec.ttl)>>
              [] f = "priority" ->
                   <<str_opt_int(current_rec.priority), str_opt_int(desired_rec.priority)>>
              [] f = "proxied" -> <<str_opt_bool(current_rec.proxied), str_bool(dp[1])>>
    IN  [f \in {g \in ChangeFields : differs(g)} |-> pair(f)]

\* The loop body without the managed-type guard: a current-only record is
\* deleted whatever its type.
plan_op_unguarded(key, desired_map, current_map, managed_types, proxy_policy) ==
    IF key \in DOMAIN desired_map /\ key \notin DOMAIN current_map
    THEN PlanOperation("create", desired_map[key], None, None)
    ELSE IF key \notin DOMAIN desired_map
    THEN PlanOperation("delete", current_map[key], Some(current_map[key]), None)
    ELSE LET changes == changes_of(desired_map[key], current_map[key], proxy_policy)
         IN  IF changes # <<>>
             THEN PlanOperation("update", with_policy(desired_map[key], proxy_policy),
                                Some(current_map[key]), changes)
             ELSE PlanOperation("noop", desired_map[key], Some(current_map[key]), None)

\* A loop body that leaves a current-only record of an unmanaged type out
\* of the plan.
plan_op_skip_unmanaged(key, desired_map, current_map, managed_types, proxy_policy) ==
    IF key \in DOMAIN desired_map /\ key \notin DOMAIN current_map
    THEN PlanOperation("create", desired_map[key], None, None)
    ELSE IF key \notin DOMAIN desired_map
    THEN IF upper(current_map[key].type) \in managed_types
         THEN PlanOperation("delete", current_map[key], Some(current_map[key]), None)
         ELSE PlanOperation("skip", current_map[key], Some(current_map[key]), None)
    ELSE LET changes == changes_of(desired_map[key], current_map[key], proxy_policy)
         IN  IF changes # <<>>
             THEN PlanOperation("update", with_policy(desired_map[key], proxy_policy),
                                Some(current_map[key]), changes)
             ELSE PlanOperation("noop", desired_map[key], Some(current_map[key]), None)

\* The body of the loop over sorted(all_keys): the operation of one key.
plan_op(key, desired_map, current_map, managed_types, proxy_policy) ==
    IF key \in DOMAIN desired_map /\ key \notin DOMAIN current_map
    THEN PlanOperation("create", desired_map[key], None, None)
    ELSE IF key \notin DOMAIN desired_map
    THEN IF upper(current_map[key].type) \in managed_types
         THEN PlanOperation("delete", current_map[key], Some(current_map[key]), None)
         ELSE PlanOperation("noop", current_map[key], Some(current_map[key]), None)
    ELSE LET changes == changes_of(desired_map[key], current_map[key], proxy_policy)
         IN  IF changes # <<>>
             THEN PlanOperation("update", with_policy(desired_map[key], proxy_policy),
                                Some(current_map[key]), changes)
             ELSE PlanOperation("noop", desired_map[key], Some(current_map[key]), None)

_compute_plan(domain, desired, current, proxy_policy, managed_types, exclude_patterns) ==
    LET managed == {upper(managed_types[i]) : i \in 1..Len(managed_types)}
        desired_list == KeepAll(desired_after(desired, proxy_policy, exclude_patterns),
                                exclude_patterns)
        current_list == KeepAll(current, exclude_patterns)
        desired_map == record_map(desired_list)
        current_map == record_map(current_list)
        keys == sorted(DOMAIN desired_map \cup DOMAIN current_map)
        ops == [i \in 1..Len(keys) |->
                   plan_op(keys[i], desired_map, current_map, managed, proxy_policy)]
        only(action) == SelectSeq(ops, LAMBDA o : o.action = action)
    IN  SyncPlan(domain, only("create"), only("update"), only("delete"), only("noop"), <<>>)

\* A payload that holds the ttl whenever it is set, 0 included.
_to_cf_payload_any_ttl(record) ==
    [type |-> record.type, name |-> record.fqdn,
     content |-> IF upper(record.type) = T_TXT /\ ~(startswith(record.content, <<"\"">>)
                                                   /\ endswith(record.content, <<"\"">>))
                 THEN <<"\"">> \o record.content \o <<"\"">> ELSE record.content,
     ttl |-> record.ttl,
     priority |-> IF upper(record.type) \in {T_MX, T_SRV} THEN record.priority ELSE None,
     proxied |-> IF upper(record.type) \in {T_A, T_AAAA, T_CNAME} THEN record.proxied ELSE None,
     comment |-> IF TruthyStr(record.comment) THEN record.comment ELSE None]

\* SyncService._to_cf_payload: a key the payload lacks is None.
_to_cf_payload(record) ==
    LET t == upper(record.type)
        content == IF t = T_TXT /\ ~(startswith(record.content, <<"\"">>)
                                     /\ endswith(record.content, <<"\"">>))
                   THEN <<"\"">> \o record.content \o <<"\"">>
                   ELSE record.content
    IN  [type |-> record.type,
         name |-> record.fqdn,
         content |-> content,
         ttl |-> IF TruthyInt(record.ttl) THEN record.ttl ELSE None,
         priority |-> IF t \in {T_MX, T_SRV} /\ record.priority # None
                      THEN record.priority ELSE None,
         proxied |-> IF t \in {T_A, T_AAAA, T_CNAME} /\ record.proxied # None
                     THEN record.proxied ELSE None,
         comment |-> IF TruthyStr(record.comment) THEN record.comment ELSE None]

\* ------------------------------------------------------------------------
\* The running system: two triggers (the manual sync route and the scheduled
\* job) drive one SyncService, one source zone and one target zone.
\* ------------------------------------------------------------------------

\* main.py sync_domain and scheduler.py _run_for_domain: each runs
\* compute_plan_for_domain and then apply_plan.
Threads == {"manual", "scheduled"}

\* The one domain of the model, and the id the target gives its zone.
ExampleDomain == <<"e","x",".","c","o">>

ZoneId == <<"z","1">>

\* config.py: MANAGED_RECORD_TYPES and SYNC_CONCURRENCY defaults.
managed_record_types == <<T_A, T_AAAA, T_CNAME, T_TXT, T_MX, T_SRV, T_CAA>>

sync_concurrency == 5

\* str(exc) of an exception a target call raises: any string, the empty one
\* included (an exception constructed without a message).
ErrMsgs == {<<>>, <<"5","0","0">>}

\* The outcome of one HTTP call as the environment decides it.
Outcomes == {[ok |-> TRUE, msg |-> <<>>]} \cup {[ok |-> FALSE, msg |-> m] : m \in ErrMsgs}

VARIABLES
    da_rows,        \* the source zone: the rows DirectAdmin answers with
    cf_rows,        \* the target zone: the rows Cloudflare holds, in listing order
    cf_next_id,     \* the target's next record id
    db_zone_id,     \* Domain.cf_zone_id as committed
    settings,       \* AppSettings: [policy, exclude_patterns]
    domain_locks,   \* SyncService.domain_locks: domain name -> lock
    locks,          \* the Lock objects created so far: locks[l] is the holder
    triggers,       \* the triggers that are switched on
    budget,         \* runs each trigger may still start
    acme_only,      \* the acme_only argument of each trigger's run
    pc,             \* where each trigger's run stands
    zone_id,        \* domain.cf_zone_id of the run's Domain object
    da_records,     \* the desired records of the run
    cf_records,     \* the current records the run listed
    plan,           \* the SyncPlan of the run
    lock,           \* the lock apply_plan got from _get_lock
    run,            \* the SyncRun row
    ops,            \* the futures of _apply_operations: submitted, running, done
    counts,         \* the counts dict of _apply_operations
    obs,            \* what the run did so far (history)
    calls,          \* the target calls made so far (history)
    client,         \* the call of an HTTP client that is made on its own
    adapter         \* the DirectAdminClient instance: its pointer_map and its calls

vars == <<da_rows, cf_rows, cf_next_id, db_zone_id, settings, domain_locks, locks, triggers,
          budget, acme_only, pc, zone_id, da_records, cf_records, plan, lock, run, ops, counts, obs,
          calls, client, adapter>>

EmptyPlan == SyncPlan(ExampleDomain, <<>>, <<>>, <<>>, <<>>, <<>>)

\* SyncRun: the fields apply_plan writes.
SyncRun(status) ==
    [status |-> status, error_summary |-> None, finished |-> FALSE, created_count |-> 0,
     updated_count |-> 0, deleted_count |-> 0, skipped_count |-> 0, noop_count |-> 0]

NewCounts == [created |-> 0, updated |-> 0, deleted |-> 0, skipped |-> 0, noop |-> 0,
              errors |-> <<>>]

\* What a run did: the plan was computed in this run; the source fetch failed;
\* zone lookups made inside apply_plan, and whether one returned None;
\* operations were dispatched; create, update and delete calls that raised;
\* mutation calls made; delete calls made; how often the worker ran on each
\* operation; the operations a target call was made for; the calls the
\* target accepted; the desired records as _compute_plan received them.
NewObs == [planned |-> FALSE, da_failed |-> FALSE, lookups |-> 0, zone_none |-> FALSE,
           dispatched |-> FALSE, create_raised |-> 0, update_raised |-> 0,
           delete_raised |-> 0, mutations |-> 0, deletes |-> 0, attempted |-> EmptyBag,
           called |-> {}, applied |-> {}, given |-> <<>>]

\* plan.creates + plan.updates + plan.deletes + plan.noops
plan_ops(p) == p.creates \o p.updates \o p.deletes \o p.noops

\* A lookup made whether or not a zone id is cached.
zone_lookup_always(z) == TRUE

\* `if not domain.cf_zone_id:` before find_zone_by_name
NeedsZoneLookup(z) == ~TruthyStr(z)

\* An apply that goes on without a zone id.
zone_never_missing(z) == FALSE

\* apply_plan, the second `if not domain.cf_zone_id:`, after the lookup
zone_not_found(z) == ~TruthyStr(z)

\* Lock.acquire blocks while the lock is held.
LockFree(l) == locks[l] = None

HoldsLock(t) == lock[t] # None /\ locks[lock[t][1]] = Some(t)

\* A lock that stays held when the block is left.
lock_kept(ls, l) == ls

\* The end of `with lock:`: Lock.__exit__ releases, however the block is left.
lock_release(ls, l) == [ls EXCEPT ![l] = None]

\* CloudflareClient.list_dns_records over the rows of the zone (one page).
list_dns_records(rows) == [i \in 1..Len(rows) |-> normalize_cf_record(rows[i])]

\* DirectAdminClient.get_dns_records on a 2xx answer.
get_dns_records(rows, domain) == [i \in 1..Len(rows) |-> normalize_da_record(rows[i], domain)]

\* ------------------------------------------------------------------------
\* clients/directadmin.py and clients/cloudflare.py: the HTTP clients
\* ------------------------------------------------------------------------

\* Response.raise_for_status raises HTTPError for a 4xx or 5xx status.
raise_for_status(status) == 400 <= status /\ status < 600

\* Retry(total=5, status_forcelist=[429, 500, 502, 503, 504]) of
\* _retrying_session.
RetryTotal == 5

status_forcelist == {429, 500, 502, 503, 504}

per_page == 100

\* The status the server answers the attempt-th request of one call with: it
\* answers its first server.flaky requests with server.flaky_status.
StatusAt(server, attempt) ==
    IF attempt <= server.flaky THEN server.flaky_status ELSE server.status

\* session.get on a session with the retrying adapter: a status of the
\* forcelist is retried while retries are left, and raises RetryError once
\* they are used up (raise_on_status is left at its default); any other
\* response is handed back.
RECURSIVE retrying_get(_, _, _)
retrying_get(server, attempt, total) ==
    LET status == StatusAt(server, attempt)
    IN  IF status \in status_forcelist
        THEN IF total = 0
             THEN [raised |-> Some("RetryError"), status |-> status, attempts |-> attempt]
             ELSE retrying_get(server, attempt + 1, total - 1)
        ELSE [raised |-> None, status |-> status, attempts |-> attempt]

\* CloudflareClient.find_zone_by_name: what it returns or raises.
find_zone_by_name(server) ==
    LET resp == retrying_get(server, 1, RetryTotal)
    IN  IF resp.raised # None THEN [returned |-> None, raised |-> resp.raised]
        ELSE IF raise_for_status(resp.status) THEN [returned |-> None, raised |-> None]
        ELSE IF ~server.json THEN [returned |-> None, raised |-> Some("ValueError")]
        ELSE IF server.result # <<>>
             THEN [returned |-> Some(server.result[1]), raised |-> None]
             ELSE [returned |-> None, raised |-> None]

isdigit(s) == s # <<>> /\ \A i \in 1..Len(s) : \E d \in 1..Len(Digits) : Digits[d] = s[i]

RECURSIVE int(_)
int(s) ==
    IF s = <<>> THEN 0
    ELSE 10 * int(SubSeq(s, 1, Len(s) - 1))
         + (CHOOSE d \in 0..9 : Digits[d + 1] = s[Len(s)])

\* DirectAdminClient._parse_legacy_dns, line by line.
legacy_rows(line) ==
    LET parts == split_ws(strip(line))
    IN  IF strip(line) = <<>> \/ startswith(strip(line), <<"#">>) \/ Len(parts) < 3
        THEN <<>>
        ELSE <<DaRow(Some(parts[1]), Some(parts[2]), Some(parts[3]),
                     IF Len(parts) >= 4 /\ isdigit(parts[4]) THEN Some(int(parts[4])) ELSE None,
                     IF Len(parts) >= 5 /\ isdigit(parts[5]) THEN Some(int(parts[5]))
                     ELSE None)>>

RECURSIVE _parse_legacy_dns(_, _)
_parse_legacy_dns(lines, domain) ==
    IF lines = <<>> THEN <<>>
    ELSE get_dns_records(legacy_rows(lines[1]), domain)
         \o _parse_legacy_dns(SubSeq(lines, 2, Len(lines)), domain)

\* DirectAdminClient.get_dns_records on the answer to the record query: a
\* body that is JSON goes to _parse_json_dns, any other to _parse_legacy_dns.
da_get_dns_records(resp, domain) ==
    IF raise_for_status(resp.status) THEN <<>>
    ELSE IF resp.json THEN get_dns_records(resp.rows, domain)
    ELSE _parse_legacy_dns(resp.lines, domain)

NoCall == [fn |-> "none", at |-> "idle", answer |-> <<>>, page |-> 0, pages |-> <<>>,
           records |-> <<>>, returned |-> None, raised |-> None,
           attempts |-> 0]

\* ------------------------------------------------------------------------
\* The target zone behind create_dns_record / update_dns_record /
\* delete_dns_record: it stores what the payload carries.
\* ------------------------------------------------------------------------

\* str.replace("_", ".")
replace_underscores(s) == [i \in 1..Len(s) |-> IF s[i] = "_" THEN "." ELSE s[i]]

\* `c in s` for a character c
contains(s, c) == \E i \in 1..Len(s) : s[i] = c

\* sorted(domains) for a set of strings
RECURSIVE sorted_strings(_)
sorted_strings(strs) ==
    IF strs = {} THEN <<>>
    ELSE LET m == CHOOSE k \in strs : \A o \in strs \ {k} : StrLess(k, o)
         IN  <<m>> \o sorted_strings(strs \ {m})

\* The body of a response as parse_qs reads it: its key=value pairs.
\* _parse_domain_list: the values of the keys list[], list and domains.
_parse_domain_list(body) ==
    {replace_underscores(body[i][2]) :
        i \in {j \in 1..Len(body) :
                  body[j][1] \in {<<"l","i","s","t","[","]">>, <<"l","i","s","t">>,
                                  <<"d","o","m","a","i","n","s">>}}}

\* _parse_pointer_domains: the keys and the values that look like domains.
_parse_pointer_domains(body) ==
    LET candidates == {replace_underscores(body[i][1]) : i \in 1..Len(body)}
                      \cup {replace_underscores(body[i][2]) : i \in 1..Len(body)}
    IN  sorted_strings({d \in candidates : contains(d, ".") /\ ~contains(d, " ")})

\* The answer to one request of the DirectAdmin client: the request raised
\* (the connection failed), or a response came with a status and a body.
DaResponse(raised, status, body) == [raised |-> raised, status |-> status, body |-> body]

\* The pointers an endpoint of list_domain_pointers adds: none if the request
\* raised or the status is not 200.
endpoint_pointers(answer) ==
    IF answer.raised \/ answer.status # 200 THEN {}
    ELSE Range(_parse_pointer_domains(answer.body))

\* list_domain_pointers, the loop over the endpoints: every endpoint is
\* asked, and each adds its pointers to the one set.
pointers_of_endpoints(answers) == UNION {endpoint_pointers(answers[i]) : i \in 1..Len(answers)}

\* pointer_map[p] = domain for the pointers p of result, in order.
RECURSIVE store_pointers(_, _, _)
store_pointers(pointer_map, result, domain) ==
    IF result = <<>> THEN pointer_map
    ELSE store_pointers(IF result[1] # domain
                        THEN [d \in DOMAIN pointer_map \cup {result[1]} |->
                                 IF d = result[1] THEN domain ELSE pointer_map[d]]
                        ELSE pointer_map,
                        Tail(result), domain)

\* DirectAdminClient.list_domain_pointers: what it returns and the
\* pointer_map it leaves.  answers[i] answers the request to endpoint i.
list_domain_pointers(pointer_map, domain, answers) ==
    LET result == sorted_strings(pointers_of_endpoints(answers))
    IN  [returned |-> result, pointer_map |-> store_pointers(pointer_map, result, domain)]

\* The base domains in the order `for domain in list(base_domains)` takes them.
RECURSIVE pointers_of_domains(_, _, _)
pointers_of_domains(pointer_map, domains, answers) ==
    IF domains = <<>> THEN pointer_map
    ELSE pointers_of_domains(
             list_domain_pointers(pointer_map, domains[1], answers).pointer_map,
             Tail(domains), answers)

\* DirectAdminClient.list_domains: the request of the base domains raises,
\* or raise_for_status does, or every base domain is asked for its pointers.
list_domains(pointer_map, show, answers) ==
    IF show.raised \/ raise_for_status(show.status)
    THEN [raised |-> TRUE, pointer_map |-> pointer_map]
    ELSE [raised |-> FALSE,
          pointer_map |-> pointers_of_domains(pointer_map,
                                              sorted_strings(_parse_domain_list(show.body)),
                                              answers)]

\* dict.get(key, default)
dict_get(dict, key, default) == IF key \in DOMAIN dict THEN dict[key] ELSE default

\* `if not self.pointer_map:`
needs_population(pointer_map) == DOMAIN pointer_map = {}

\* DirectAdminClient.resolve_base_domain
resolve_base_domain(pointer_map, domain, show, answers) ==
    IF needs_population(pointer_map)
    THEN LET listed == list_domains(pointer_map, show, answers)
         IN  IF listed.raised
             THEN [returned |-> domain, pointer_map |-> listed.pointer_map, lazy |-> 1,
                   failed |-> TRUE]
             ELSE [returned |-> dict_get(listed.pointer_map, domain, domain),
                   pointer_map |-> listed.pointer_map, lazy |-> 1, failed |-> FALSE]
    ELSE [returned |-> dict_get(pointer_map, domain, domain), pointer_map |-> pointer_map,
          lazy |-> 0, failed |-> FALSE]

\* DirectAdminClient.get_dns_records up to the request: the lazy population
\* and the choice of the command and the domain it is asked for.
dns_control_request(pointer_map, domain, show, answers) ==
    LET lazy == needs_population(pointer_map)
        populated == IF lazy THEN list_domains(pointer_map, show, answers).pointer_map
                     ELSE pointer_map
        pointer_base == dict_get(populated, domain, None)
    IN  [pointer_map |-> populated, lazy |-> IF lazy THEN 1 ELSE 0,
         url |-> IF pointer_base # None /\ pointer_base # <<>> /\ pointer_base # domain
                 THEN "CMD_DNS_CONTROL" ELSE "CMD_API_DNS_CONTROL",
         domain |-> IF pointer_base # None /\ pointer_base # <<>> /\ pointer_base # domain
                    THEN pointer_base ELSE domain]

\* A DirectAdminClient as constructed: pointer_map is empty.  lazy counts
\* the list_domains calls that lazy population made, calls the calls made.
NewAdapter ==
    [pointer_map |-> <<>>, lazy |-> 0, calls |-> 0, fn |-> "none", arg |-> <<>>,
     answers |-> <<>>, populated |-> FALSE, failed |-> FALSE,
     returned |-> <<>>, url |-> "none", before |-> <<>>]

RowOfPayload(id, payload) ==
    CfRow(Some(id), payload.type, payload.name, payload.content, payload.ttl,
          payload.priority, payload.proxied, payload.comment)

HasRow(rows, id) == \E k \in 1..Len(rows) : rows[k].id = Some(id)

RowOf(rows, id) == rows[CHOOSE k \in 1..Len(rows) : rows[k].id = Some(id)]

cf_create(rows, id, payload) == Append(rows, RowOfPayload(id, payload))

cf_update(rows, id, payload) ==
    [k \in 1..Len(rows) |-> IF rows[k].id = Some(id) THEN RowOfPayload(id, payload) ELSE rows[k]]

cf_delete(rows, id) == SelectSeq(rows, LAMBDA r : r.id # Some(id))

\* The message of the HTTPError raise_for_status raises on a 404.
NotFoundMsg == <<"4","0","4">>

S_missing_update == <<"m","i","s","s","i","n","g"," ","c","f","_","i","d"," ",
                      "f","o","r"," ","u","p","d","a","t","e">>

S_missing_delete == <<"m","i","s","s","i","n","g"," ","c","f","_","i","d"," ",
                      "f","o","r"," ","d","e","l","e","t","e">>

S_delete_failed == <<"d","e","l","e","t","e"," ","f","a","i","l","e","d",":"," ">>

\* ------------------------------------------------------------------------
\* _apply_operations
\* ------------------------------------------------------------------------

\* The target call worker(op) makes: create, update, delete, or none.
worker_call(op) ==
    IF op.action = "create" THEN "create"
    ELSE IF op.action \in {"update", "delete"}
            /\ op.current # None /\ TruthyStr(op.current[1].cf_id)
         THEN op.action
         ELSE "none"

\* A worker that reports a missing remote id as an error.
worker_missing_error(op, call, ok, msg) ==
    IF op.action = "create"
    THEN IF ok THEN <<"created", None>> ELSE <<"error", Some(msg)>>
    ELSE IF op.action = "update"
    THEN IF call = "none" THEN <<"error", Some(S_missing_update)>>
         ELSE IF ok THEN <<"updated", None>> ELSE <<"error", Some(msg)>>
    ELSE IF op.action = "delete"
    THEN IF call = "none" THEN <<"error", Some(S_missing_delete)>>
         ELSE IF ok THEN <<"deleted", None>> ELSE <<"skipped", Some(S_delete_failed \o msg)>>
    ELSE <<"noop", None>>

\* A worker that reports a failed delete as an error.
worker_delete_error(op, call, ok, msg) ==
    IF op.action = "create"
    THEN IF ok THEN <<"created", None>> ELSE <<"error", Some(msg)>>
    ELSE IF op.action = "update"
    THEN IF call = "none" THEN <<"skipped", Some(S_missing_update)>>
         ELSE IF ok THEN <<"updated", None>> ELSE <<"error", Some(msg)>>
    ELSE IF op.action = "delete"
    THEN IF call = "none" THEN <<"skipped", Some(S_missing_delete)>>
         ELSE IF ok THEN <<"deleted", None>> ELSE <<"error", Some(S_delete_failed \o msg)>>
    ELSE <<"noop", None>>

\* worker(op): <<result, error>>, given how its target call ended.
worker(op, call, ok, msg) ==
    IF op.action = "create"
    THEN IF ok THEN <<"created", None>> ELSE <<"error", Some(msg)>>
    ELSE IF op.action = "update"
    THEN IF call = "none" THEN <<"skipped", Some(S_missing_update)>>
         ELSE IF ok THEN <<"updated", None>> ELSE <<"error", Some(msg)>>
    ELSE IF op.action = "delete"
    THEN IF call = "none" THEN <<"skipped", Some(S_missing_delete)>>
         ELSE IF ok THEN <<"deleted", None>> ELSE <<"skipped", Some(S_delete_failed \o msg)>>
    ELSE <<"noop", None>>

\* The body of the as_completed loop.
aggregate(c, result, error) ==
    LET c1 == IF result \in {"created", "updated", "deleted", "skipped", "noop"}
              THEN [c EXCEPT ![result] = @ + 1]
              ELSE c
    IN  IF result = "error" /\ TruthyStr(error)
        THEN [c1 EXCEPT !.errors = Append(@, error[1])]
        ELSE c1

\* A pool that starts every submitted call at once.
pool_unbounded(n) == TRUE

\* ThreadPoolExecutor(max_workers=env_config.sync_concurrency): a submitted
\* call starts when fewer than max_workers are running.
pool_has_room(n) == n < sync_concurrency

Running(t) == Cardinality({i \in 1..Len(ops[t]) : ops[t][i] = "running"})

\* A loop that stops at the first completed future.
FirstDone(t) == \E i \in 1..Len(ops[t]) : ops[t][i] = "done"

\* as_completed(futures) is exhausted
AllDone(t) == \A i \in 1..Len(ops[t]) : ops[t][i] = "done"

\* A run whose status is left as it was when the operations are done.
status_left_running(results) == "running"

\* run.status after _apply_operations returned
final_status(results) == IF results.errors = <<>> THEN "success" ELSE "partial"

\* ------------------------------------------------------------------------
\* Actions.  A run is compute_plan_for_domain followed by apply_plan; every
\* call that leaves the process (source, target, lock) is a step of its own.
\* ------------------------------------------------------------------------

\* The acme_only argument a run of t may have: the manual route and the
\* sync job run the full plan, and the scheduler adds an ACME job when the
\* settings hold an ACME interval.
RunModes(t) ==
    {FALSE} \cup (IF t = "scheduled" /\ TruthyInt(settings.acme_sync_interval_minutes)
                  THEN {TRUE} ELSE {})

\* The route / the job starts: session.get(Domain, domain_id).
Start(t) ==
    /\ t \in triggers
    /\ pc[t] \in {"idle", "done", "aborted"}
    /\ budget[t] > 0
    /\ budget' = [budget EXCEPT ![t] = @ - 1]
    /\ pc' = [pc EXCEPT ![t] = "get_dns_records"]
    /\ \E mode \in RunModes(t) : acme_only' = [acme_only EXCEPT ![t] = mode]
    /\ zone_id' = [zone_id EXCEPT ![t] = db_zone_id]
    /\ da_records' = [da_records EXCEPT ![t] = <<>>]
    /\ cf_records' = [cf_records EXCEPT ![t] = <<>>]
    /\ plan' = [plan EXCEPT ![t] = EmptyPlan]
    /\ lock' = [lock EXCEPT ![t] = None]
    /\ run' = [run EXCEPT ![t] = SyncRun("pending")]
    /\ ops' = [ops EXCEPT ![t] = <<>>]
    /\ counts' = [counts EXCEPT ![t] = NewCounts]
    /\ obs' = [obs EXCEPT ![t] = NewObs]
    /\ UNCHANGED <<adapter, client, da_rows, cf_rows, cf_next_id, db_zone_id, settings, domain_locks, locks,
                   triggers, calls>>

\* compute_plan_for_domain: self.da.get_dns_records(domain.name).  A 2xx
\* answer gives the normalized rows, any other status gives [], and an
\* exception of the session (no answer at all) leaves the run.
GetDnsRecords(t) ==
    /\ pc[t] = "get_dns_records"
    /\ \E answer \in {"2xx", "non2xx", "raise"} :
         /\ da_records' = [da_records EXCEPT ![t] =
                IF answer = "2xx" THEN get_dns_records(da_rows, ExampleDomain) ELSE <<>>]
         /\ obs' = [obs EXCEPT ![t].da_failed = (answer # "2xx")]
         /\ pc' = [pc EXCEPT ![t] =
                IF answer = "raise" THEN "aborted"
                ELSE IF NeedsZoneLookup(zone_id[t]) THEN "plan_find_zone"
                ELSE "list_dns_records"]
    /\ UNCHANGED <<adapter, client, da_rows, cf_rows, cf_next_id, db_zone_id, settings, domain_locks, locks,
                   triggers, acme_only, budget, zone_id, cf_records, plan, lock, run, ops, counts, calls>>

\* compute_plan_for_domain: find_zone_by_name, then the early return of an
\* empty plan when there is no zone id; an exception of the session leaves
\* the run.
PlanFindZone(t) ==
    /\ pc[t] = "plan_find_zone"
    /\ \/ \E found \in {None, Some(ZoneId)} :
            /\ zone_id' = [zone_id EXCEPT ![t] = found]
            /\ db_zone_id' = found
            /\ pc' = [pc EXCEPT ![t] = IF NeedsZoneLookup(found) THEN "get_lock"
                                       ELSE "list_dns_records"]
       \/ /\ pc' = [pc EXCEPT ![t] = "aborted"]
          /\ UNCHANGED <<zone_id, db_zone_id>>
    /\ UNCHANGED <<adapter, client, da_rows, cf_rows, cf_next_id, settings, domain_locks, locks, triggers, acme_only,
                   budget, da_records, cf_records, plan, lock, run, ops, counts, obs, calls>>

\* A variant that keeps every record.
is_any(record) == TRUE

\* compute_plan_for_domain_acme_only: is_acme(record)
is_acme(record) == startswith(record.name, S_acme)

\* The records a run plans with: all of them, or in the ACME-only variant
\* those is_acme keeps.
restrict(records, only_acme) ==
    IF only_acme THEN SelectSeq(records, is_acme) ELSE records

\* compute_plan_for_domain / compute_plan_for_domain_acme_only:
\* list_dns_records, then _compute_plan, which also writes the proxied field
\* of the desired records it keeps.
ListAndPlan(t) ==
    /\ pc[t] = "list_dns_records"
    /\ \E ok \in BOOLEAN :
         IF ok
         THEN LET desired == restrict(da_records[t], acme_only[t])
                  current == restrict(list_dns_records(cf_rows), acme_only[t])
              IN  /\ plan' = [plan EXCEPT ![t] =
                        _compute_plan(ExampleDomain, desired, current, settings.policy,
                                      managed_record_types, settings.exclude_patterns)]
                  /\ da_records' = [da_records EXCEPT ![t] =
                        desired_after(desired, settings.policy, settings.exclude_patterns)]
                  /\ cf_records' = [cf_records EXCEPT ![t] = current]
                  /\ obs' = [obs EXCEPT ![t].planned = TRUE, ![t].given = desired]
                  /\ pc' = [pc EXCEPT ![t] = "get_lock"]
         ELSE /\ pc' = [pc EXCEPT ![t] = "aborted"]
              /\ UNCHANGED <<plan, da_records, cf_records, obs>>
    /\ UNCHANGED <<adapter, client, da_rows, cf_rows, cf_next_id, db_zone_id, settings, domain_locks, locks,
                   triggers, acme_only, budget, zone_id, lock, run, ops, counts, calls>>

\* _get_lock, line 1: `if domain not in self.domain_locks`
GetLockCheck(t) ==
    /\ pc[t] = "get_lock"
    /\ pc' = [pc EXCEPT ![t] = IF ExampleDomain \in DOMAIN domain_locks
                               THEN "get_lock_return" ELSE "get_lock_create"]
    /\ UNCHANGED <<adapter, client, da_rows, cf_rows, cf_next_id, db_zone_id, settings, domain_locks, locks,
                   triggers, acme_only, budget, zone_id, da_records, cf_records, plan, lock, run, ops, counts, obs,
                   calls>>

\* _get_lock, line 2: `self.domain_locks[domain] = Lock()`
GetLockCreate(t) ==
    /\ pc[t] = "get_lock_create"
    /\ locks' = Append(locks, None)
    /\ domain_locks' = [d \in DOMAIN domain_locks \cup {ExampleDomain} |->
                           IF d = ExampleDomain THEN Len(locks) + 1 ELSE domain_locks[d]]
    /\ pc' = [pc EXCEPT ![t] = "get_lock_return"]
    /\ UNCHANGED <<adapter, client, da_rows, cf_rows, cf_next_id, db_zone_id, settings, triggers, acme_only, budget,
                   zone_id, da_records, cf_records, plan, lock, run, ops, counts, obs, calls>>

\* _get_lock, line 3: `return self.domain_locks[domain]`; then apply_plan
\* adds the SyncRun with status "running".
GetLockReturn(t) ==
    /\ pc[t] = "get_lock_return"
    /\ lock' = [lock EXCEPT ![t] = Some(domain_locks[ExampleDomain])]
    /\ run' = [run EXCEPT ![t] = SyncRun("running")]
    /\ pc' = [pc EXCEPT ![t] = "acquire"]
    /\ UNCHANGED <<adapter, client, da_rows, cf_rows, cf_next_id, db_zone_id, settings, domain_locks, locks,
                   triggers, acme_only, budget, zone_id, da_records, cf_records, plan, ops, counts, obs, calls>>

\* `with lock:`
Acquire(t) ==
    /\ pc[t] = "acquire"
    /\ LockFree(lock[t][1])
    /\ locks' = [locks EXCEPT ![lock[t][1]] = Some(t)]
    /\ pc' = [pc EXCEPT ![t] = IF NeedsZoneLookup(zone_id[t]) THEN "apply_find_zone"
                               ELSE "dispatch"]
    /\ UNCHANGED <<adapter, client, da_rows, cf_rows, cf_next_id, db_zone_id, settings, domain_locks, triggers, acme_only,
                   budget, zone_id, da_records, cf_records, plan, lock, run, ops, counts, obs, calls>>

\* apply_plan: the zone lookup inside the lock.  It returns an id or None, or
\* the session raises and the except branch ends the run.
ApplyFindZone(t) ==
    /\ pc[t] = "apply_find_zone"
    /\ \E answer \in {[found |-> z, raised |-> None] : z \in {None, Some(ZoneId)}}
                     \cup {[found |-> None, raised |-> Some(m)] : m \in ErrMsgs} :
         /\ calls' = calls \cup {[kind |-> "find_zone", by |-> t, rtype |-> <<>>,
                                  name |-> <<>>, fqdn |-> <<>>, acme_only |-> acme_only[t],
                                  locked |-> HoldsLock(t),
                                  cached |-> TruthyStr(zone_id[t]),
                                  dispatched |-> obs[t].dispatched]}
         /\ obs' = [obs EXCEPT ![t].lookups = @ + 1,
                               ![t].zone_none = (answer.raised = None /\ answer.found = None)]
         /\ IF answer.raised # None
            THEN /\ run' = [run EXCEPT ![t] = [@ EXCEPT !.status = "failed",
                                                        !.error_summary = answer.raised,
                                                        !.finished = TRUE]]
                 /\ pc' = [pc EXCEPT ![t] = "release"]
                 /\ UNCHANGED <<zone_id, db_zone_id>>
            ELSE /\ zone_id' = [zone_id EXCEPT ![t] = answer.found]
                 /\ db_zone_id' = answer.found
                 /\ IF zone_not_found(answer.found)
                    THEN /\ run' = [run EXCEPT ![t] =
                                [@ EXCEPT !.status = "failed",
                                          !.error_summary = Some(S_zone_not_found),
                                          !.finished = TRUE]]
                         /\ pc' = [pc EXCEPT ![t] = "release"]
                    ELSE /\ pc' = [pc EXCEPT ![t] = "dispatch"]
                         /\ UNCHANGED run
    /\ UNCHANGED <<adapter, client, da_rows, cf_rows, cf_next_id, settings, domain_locks, locks, triggers, acme_only,
                   budget, da_records, cf_records, plan, lock, ops, counts>>

\* _apply_operations: every operation is submitted to the pool.
Dispatch(t) ==
    /\ pc[t] = "dispatch"
    /\ ops' = [ops EXCEPT ![t] = [i \in 1..Len(plan_ops(plan[t])) |-> "submitted"]]
    /\ counts' = [counts EXCEPT ![t] = NewCounts]
    /\ obs' = [obs EXCEPT ![t].dispatched = TRUE]
    /\ pc' = [pc EXCEPT ![t] = "workers"]
    /\ UNCHANGED <<adapter, client, da_rows, cf_rows, cf_next_id, db_zone_id, settings, domain_locks, locks,
                   triggers, acme_only, budget, zone_id, da_records, cf_records, plan, lock, run, calls>>

\* A pool thread takes a submitted operation (at most sync_concurrency run).
StartOp(t, i) ==
    /\ pc[t] = "workers"
    /\ ops[t][i] = "submitted"
    /\ pool_has_room(Running(t))
    /\ ops' = [ops EXCEPT ![t][i] = "running"]
    /\ obs' = [obs EXCEPT ![t].attempted = @ (+) SetToBag({plan_ops(plan[t])[i]})]
    /\ UNCHANGED <<adapter, client, da_rows, cf_rows, cf_next_id, db_zone_id, settings, domain_locks, locks,
                   triggers, acme_only, budget, pc, zone_id, da_records, cf_records, plan, lock, run, counts, calls>>

\* worker(op) makes its target call and returns; the as_completed loop
\* counts the result.
FinishOp(t, i) ==
    /\ pc[t] = "workers"
    /\ ops[t][i] = "running"
    /\ \E out \in Outcomes :
         LET op == plan_ops(plan[t])[i]
             call == worker_call(op)
             id == IF call \in {"update", "delete"} THEN op.current[1].cf_id[1] ELSE <<>>
             found == call \in {"update", "delete"} => HasRow(cf_rows, id)
             ok == out.ok /\ found
             msg == IF out.ok /\ ~found THEN NotFoundMsg ELSE out.msg
             res == worker(op, call, ok, msg)
             payload == _to_cf_payload(op.record)
             new_id == str_int(cf_next_id)
             touched == IF call = "create" THEN op.record ELSE op.current[1]
         IN  /\ call = "none" => out.ok
             /\ cf_rows' = IF ~ok \/ call = "none" THEN cf_rows
                           ELSE IF call = "create" THEN cf_create(cf_rows, new_id, payload)
                           ELSE IF call = "update" THEN cf_update(cf_rows, id, payload)
                           ELSE cf_delete(cf_rows, id)
             /\ cf_next_id' = IF ok /\ call = "create" THEN cf_next_id + 1 ELSE cf_next_id
             /\ counts' = [counts EXCEPT ![t] = aggregate(@, res[1], res[2])]
             /\ calls' = IF call = "none" THEN calls
                         ELSE calls \cup {[kind |-> call, by |-> t,
                                           name |-> touched.name, fqdn |-> touched.fqdn,
                                           acme_only |-> acme_only[t],
                                           rtype |-> IF call = "create" \/ ~found
                                                     THEN upper(op.record.type)
                                                     ELSE upper(RowOf(cf_rows, id).type),
                                           locked |-> HoldsLock(t),
                                           cached |-> TruthyStr(zone_id[t]),
                                           dispatched |-> obs[t].dispatched]}
             /\ obs' = [obs EXCEPT
                   ![t].mutations = @ + (IF call = "none" THEN 0 ELSE 1),
                   ![t].deletes = @ + (IF call = "delete" THEN 1 ELSE 0),
                   ![t].create_raised = @ + (IF call = "create" /\ ~ok THEN 1 ELSE 0),
                   ![t].update_raised = @ + (IF call = "update" /\ ~ok THEN 1 ELSE 0),
                   ![t].delete_raised = @ + (IF call = "delete" /\ ~ok THEN 1 ELSE 0),
                   ![t].called = @ \cup (IF call = "none" THEN {} ELSE {op}),
                   ![t].applied = @ \cup (IF ok /\ call # "none"
                                          THEN {[kind |-> call,
                                                 id |-> IF call = "create" THEN new_id ELSE id]}
                                          ELSE {})]
    /\ ops' = [ops EXCEPT ![t][i] = "done"]
    /\ UNCHANGED <<adapter, client, da_rows, db_zone_id, settings, domain_locks, locks, triggers, acme_only, budget, pc,
                   zone_id, da_records, cf_records, plan, lock, run>>

\* apply_plan: _apply_operations returned; the run is written.
Finish(t) ==
    /\ pc[t] = "workers"
    /\ AllDone(t)
    /\ run' = [run EXCEPT ![t] =
           [status |-> final_status(counts[t]),
            error_summary |-> IF counts[t].errors # <<>>
                              THEN Some(join(<<";", " ">>, counts[t].errors)) ELSE None,
            finished |-> TRUE,
            created_count |-> counts[t].created,
            updated_count |-> counts[t].updated,
            deleted_count |-> counts[t].deleted,
            skipped_count |-> counts[t].skipped,
            noop_count |-> counts[t].noop]]
    /\ pc' = [pc EXCEPT ![t] = "release"]
    /\ UNCHANGED <<adapter, client, da_rows, cf_rows, cf_next_id, db_zone_id, settings, domain_locks, locks,
                   triggers, acme_only, budget, zone_id, da_records, cf_records, plan, lock, ops, counts, obs, calls>>

\* The end of `with lock:`, then `return run`.
Release(t) ==
    /\ pc[t] = "release"
    /\ locks' = lock_release(locks, lock[t][1])
    /\ pc' = [pc EXCEPT ![t] = "done"]
    /\ UNCHANGED <<adapter, client, da_rows, cf_rows, cf_next_id, db_zone_id, settings, domain_locks, triggers, acme_only,
                   budget, zone_id, da_records, cf_records, plan, lock, run, ops, counts, obs, calls>>

Next ==
    \E t \in Threads :
        \/ Start(t)
        \/ GetDnsRecords(t)
        \/ PlanFindZone(t)
        \/ ListAndPlan(t)
        \/ GetLockCheck(t)
        \/ GetLockCreate(t)
        \/ GetLockReturn(t)
        \/ Acquire(t)
        \/ ApplyFindZone(t)
        \/ Dispatch(t)
        \/ \E i \in 1..Len(ops[t]) : StartOp(t, i)
        \/ \E i \in 1..Len(ops[t]) : FinishOp(t, i)
        \/ Finish(t)
        \/ Release(t)

\* ------------------------------------------------------------------------
\* Zones the model starts from
\* ------------------------------------------------------------------------

\* Source rows.  Row_www_A_prio is the legacy line "www A 1 300 10".
Row_www_A == DaRow(Some(S_www), Some(T_A), Some(<<"1">>), Some(300), None)

Row_www_A_prio == DaRow(Some(S_www), Some(T_A), Some(<<"1">>), Some(300), Some(10))

Row_txt == DaRow(Some(S_at), Some(T_TXT), Some(<<"\"","v"," "," ","1","\"">>), None, None)

Row_mx == DaRow(Some(<<"m">>), Some(T_MX), Some(<<"m","x">>), None, Some(10))

Row_ns == DaRow(Some(S_at), Some(T_NS), Some(<<"n","s">>), None, None)

\* Target rows
Cf_www_A(id) ==
    CfRow(Some(id), T_A, S_www \o <<".">> \o ExampleDomain, <<"2">>, Some(1), None,
          Some(FALSE), None)

Cf_ptr(id) == CfRow(Some(id), T_PTR, <<"p",".">> \o ExampleDomain, <<"h">>, None, None, None, None)

Cf_ns(id) == CfRow(Some(id), T_NS, ExampleDomain, <<"n","s">>, None, None, None, None)

Cf_txt(id) ==
    CfRow(Some(id), T_TXT, <<"o",".">> \o ExampleDomain, <<"\"","o","\"">>, None, None, None, None)

DefaultSettings ==
    [policy |-> ProxyPolicy(TRUE, TRUE, TRUE, TRUE, TRUE), exclude_patterns |-> <<>>,
     acme_sync_interval_minutes |-> None]

\* runs a trigger may start
MaxRuns == 2

MaxRunsRace == 1

MaxRunsApply == 1

MaxRunsLive == 1

MaxRunsPool == 1

MaxRunsExclude == 2

MaxRunsPolicy == 1

\* The longest TXT value drawn, and the most full pages a target listing has.
MaxTxtLen == 4

MaxPages == 3

InitZones(DaZones, CfZones, Settings, on, runs) ==
    /\ da_rows \in DaZones
    /\ cf_rows \in CfZones
    /\ cf_next_id = Len(cf_rows) + 1
    /\ db_zone_id \in {None, Some(ZoneId)}
    /\ settings \in Settings
    /\ domain_locks = <<>>
    /\ locks = <<>>
    /\ triggers = on
    /\ budget = [t \in Threads |-> runs]
    /\ acme_only = [t \in Threads |-> FALSE]
    /\ pc = [t \in Threads |-> "idle"]
    /\ zone_id = [t \in Threads |-> None]
    /\ da_records = [t \in Threads |-> <<>>]
    /\ cf_records = [t \in Threads |-> <<>>]
    /\ plan = [t \in Threads |-> EmptyPlan]
    /\ lock = [t \in Threads |-> None]
    /\ run = [t \in Threads |-> SyncRun("pending")]
    /\ ops = [t \in Threads |-> <<>>]
    /\ counts = [t \in Threads |-> NewCounts]
    /\ obs = [t \in Threads |-> NewObs]
    /\ calls = {}
    /\ client = NoCall
    /\ adapter = NewAdapter

InitWith(DaZones, CfZones, on, runs) ==
    InitZones(DaZones, CfZones, {DefaultSettings}, on, runs)

\* Both triggers on one domain.
Init ==
    InitWith({<<Row_www_A>>}, {<<>>, <<Cf_www_A(<<"1">>)>>}, Threads, MaxRunsRace)

Spec == Init /\ [][Next]_vars

\* One trigger, run after run, over a wider choice of zones.
InitRun ==
    InitWith({<<>>, <<Row_www_A, Row_txt, Row_mx>>, <<Row_www_A_prio>>, <<Row_www_A, Row_ns>>},
             {<<>>, <<Cf_www_A(<<"1">>), Cf_ptr(<<"2">>), Cf_ns(<<"3">>)>>,
              <<Cf_txt(<<"1">>)>>},
             {"manual"}, MaxRuns)

SpecRun == InitRun /\ [][Next]_vars

\* A target zone of six managed records and one PTR record, and a source
\* zone without records: more operations than the pool has workers.
Cf_txt_at(id, label) ==
    CfRow(Some(id), T_TXT, <<label, ".">> \o ExampleDomain, <<"\"","o","\"">>, None, None, None,
          None)

InitPool ==
    InitWith({<<>>},
             {<<Cf_txt_at(<<"1">>, "a"), Cf_txt_at(<<"2">>, "b"), Cf_txt_at(<<"3">>, "c"),
                Cf_txt_at(<<"4">>, "d"), Cf_txt_at(<<"5">>, "e"), Cf_txt_at(<<"6">>, "f"),
                Cf_ptr(<<"7">>)>>},
             {"manual"}, MaxRunsPool)

SpecPool == InitPool /\ [][Next]_vars

\* The scheduler's sync job and ACME job on a zone with ACME-challenge
\* records, under exclusion patterns.
S_tok == <<"t","o","k">>

Row_acme_txt == DaRow(Some(S_acme), Some(T_TXT), Some(S_tok), None, None)

Row_acme_ns == DaRow(Some(S_acme), Some(T_NS), Some(<<"n","s">>), None, None)

Cf_acme_txt(id) ==
    CfRow(Some(id), T_TXT, S_acme_dot \o ExampleDomain, <<"\"","o","\"">>, None, None, None,
          None)

ExcludeSettings ==
    {[DefaultSettings EXCEPT !.exclude_patterns = patterns,
                             !.acme_sync_interval_minutes = Some(5)] :
        patterns \in {<<>>, <<<<"*">>>>, <<S_www, <<"o","*">>>>}}

InitExclude ==
    InitZones({<<Row_acme_txt, Row_www_A>>, <<Row_acme_ns, Row_www_A>>},
              {<<>>, <<Cf_acme_txt(<<"1">>), Cf_www_A(<<"2">>), Cf_txt(<<"3">>)>>},
              ExcludeSettings, {"scheduled"}, MaxRunsExclude)

SpecExclude == InitExclude /\ [][Next]_vars

\* The planner under every proxy policy.  compute_plan_for_domain holds the
\* desired records (get_dns_records returned) and goes on to list the target;
\* the desired records are drawn as DNSRecord values, with any proxied field.
S_blog == <<"b","l","o","g">>

Fqdn(label) == label \o <<".">> \o ExampleDomain

Desired(type, name, fqdn, content, ttl, priority, proxied) ==
    DNSRecord(type, name, fqdn, content, ttl, priority, proxied, None, None)

\* Desired records with the target zone they are planned against: the three
\* creates of tests/test_planner.py; host names against a CNAME that differs
\* in its trailing dot only; a record that differs in priority; a record that
\* differs in content and ttl; three records in descending key order; two
\* records of one identity key on each side.
PolicyCases ==
    {[desired |-> <<Desired(T_A, S_www, Fqdn(S_www), <<"1">>, None, None, Some(FALSE)),
                    Desired(T_AAAA, S_www, Fqdn(S_www), <<":">>, None, None, None),
                    Desired(T_CNAME, S_blog, Fqdn(S_blog), <<"t">>, None, None, Some(TRUE))>>,
      current |-> <<>>],
     [desired |-> <<Desired(T_A, S_at, ExampleDomain, <<"1">>, None, None, None),
                    Desired(T_CNAME, <<>>, ExampleDomain, <<"t">>, Some(300), None, Some(TRUE)),
                    Desired(T_AAAA, <<"W","W","W">>, Fqdn(<<"W","W","W">>), <<":">>, None, None,
                            Some(FALSE))>>,
      current |-> <<CfRow(Some(<<"1">>), T_CNAME, ExampleDomain, <<"t",".">>, Some(300), None,
                          None, None)>>],
     [desired |-> <<Desired(T_TXT, S_at, ExampleDomain, <<"v">>, None, None, None),
                    Desired(T_A, S_blog, Fqdn(S_blog), <<"1">>, Some(300), Some(10), None)>>,
      current |-> <<CfRow(Some(<<"1">>), T_TXT, ExampleDomain, <<"\"","v","\"">>, None, None,
                          None, None),
                    CfRow(Some(<<"2">>), T_A, Fqdn(S_blog), <<"1">>, Some(300), None,
                          Some(TRUE), None)>>],
     [desired |-> <<Desired(T_A, S_www, Fqdn(S_www), <<"1">>, None, None, Some(TRUE)),
                    Desired(T_MX, <<"m">>, Fqdn(<<"m">>), <<"m","x">>, None, Some(10), None)>>,
      current |-> <<CfRow(Some(<<"1">>), T_A, Fqdn(S_www), <<"2">>, Some(1), None,
                          Some(FALSE), None),
                    CfRow(Some(<<"2">>), T_MX, Fqdn(<<"m">>), <<"m","x">>, None, Some(10),
                          None, None)>>],
     [desired |-> <<Desired(T_TXT, <<"z">>, Fqdn(<<"z">>), <<"v">>, None, None, None),
                    Desired(T_A, S_blog, Fqdn(S_blog), <<"1">>, None, None, None),
                    Desired(T_A, <<"a">>, Fqdn(<<"a">>), <<"1">>, None, None, None)>>,
      current |-> <<>>],
     [desired |-> <<Desired(T_A, S_www, Fqdn(S_www), <<"1">>, None, None, None),
                    Desired(T_A, S_www, Fqdn(S_www), <<"2">>, None, None, None)>>,
      current |-> <<CfRow(Some(<<"1">>), T_A, Fqdn(S_www), <<"3">>, None, None,
                          Some(TRUE), None),
                    CfRow(Some(<<"2">>), T_A, Fqdn(S_www), <<"2">>, None, None,
                          Some(TRUE), None)>>]}

PolicySettings ==
    {[DefaultSettings EXCEPT !.policy = ProxyPolicy(a, aaaa, cname, host, sub)] :
        a \in BOOLEAN, aaaa \in BOOLEAN, cname \in BOOLEAN, host \in BOOLEAN,
        sub \in BOOLEAN}

\* The planner is entered with drawn desired records, or by a run the
\* trigger starts on the source zone.
InitPolicy ==
    \/ InitZones({<<Row_www_A>>}, {<<>>}, {DefaultSettings}, {"manual"}, MaxRunsPolicy)
    \/ /\ da_rows = <<>>
       /\ \E case \in PolicyCases :
             /\ cf_rows = case.current
             /\ da_records = [t \in Threads |-> IF t = "manual" THEN case.desired ELSE <<>>]
       /\ cf_next_id = Len(cf_rows) + 1
       /\ db_zone_id = Some(ZoneId)
       /\ settings \in PolicySettings
       /\ domain_locks = <<>>
       /\ locks = <<>>
       /\ triggers = {"manual"}
       /\ budget = [t \in Threads |-> 0]
       /\ acme_only = [t \in Threads |-> FALSE]
       /\ pc = [t \in Threads |-> IF t = "manual" THEN "list_dns_records" ELSE "idle"]
       /\ zone_id = [t \in Threads |-> IF t = "manual" THEN db_zone_id ELSE None]
       /\ cf_records = [t \in Threads |-> <<>>]
       /\ plan = [t \in Threads |-> EmptyPlan]
       /\ lock = [t \in Threads |-> None]
       /\ run = [t \in Threads |-> SyncRun("pending")]
       /\ ops = [t \in Threads |-> <<>>]
       /\ counts = [t \in Threads |-> NewCounts]
       /\ obs = [t \in Threads |-> NewObs]
       /\ calls = {}
       /\ client = NoCall
       /\ adapter = NewAdapter

SpecPolicy == InitPolicy /\ [][Next]_vars

\* ------------------------------------------------------------------------
\* The HTTP clients called on their own, against servers that answer in
\* every way.
\* ------------------------------------------------------------------------

service_vars == <<da_rows, cf_rows, cf_next_id, db_zone_id, settings, domain_locks, locks,
                  triggers, budget, acme_only, pc, zone_id, da_records, cf_records, plan, lock,
                  run, ops, counts, obs, calls>>

\* Raw record names of the source: missing, empty, @, the zone with and
\* without a trailing dot, relative and absolute names in lower and upper
\* case, a name in blanks, a name of another zone.
RawNames ==
    {None, Some(<<>>), Some(S_at), Some(ExampleDomain), Some(ExampleDomain \o <<".">>),
     Some(S_www), Some(<<"W","W","W">>), Some(S_www \o <<".">> \o ExampleDomain),
     Some(<<"W","W","W",".","E","X",".","C","O",".">>), Some(<<" ","w","w","w"," ">>), Some(<<"a",".","b">>), Some(<<"A",".","B",".">>)}

TxtAlphabet == {"\"", " ", "\t", "a"}

TxtInputs == UNION {[1..n -> TxtAlphabet] : n \in 0..MaxTxtLen}

\* Bodies that are no JSON: the body of tests/test_directadmin_client.py with
\* a comment and a blank line, an empty body, and an HTML page.
TextBodies ==
    {<<>>,
     <<<<"w","w","w"," ","A"," ","1"," ","3","0","0">>,
       <<"@","\t","T","X","T","\t","\"","v","\""," ","3","0","0">>,
       <<"#"," ","c">>,
       <<>>,
       <<"m"," ","M","X"," ","x"," ","3","0","0"," ","1","0">>>>,
     <<<<"<","h","1",">","3","0","0"," ","M","u","l","t","i","p","l","e"," ","C","h","o","i","c","e","s","<","/","h","1",">">>>>}

DaStatuses == {200, 300, 404, 500}

DaAnswer(status, json, rows, lines) ==
    [status |-> status, json |-> json, rows |-> rows, lines |-> lines]

\* What DirectAdmin answers the record query with.  A 3xx answer is one that
\* carries no Location header: the session hands it to the caller.
DaAnswers ==
    {DaAnswer(status, TRUE, <<DaRow(name, Some(T_A), Some(<<"1">>), None, None)>>, <<>>) :
        status \in DaStatuses, name \in RawNames}
    \cup {DaAnswer(200, TRUE, <<DaRow(Some(S_at), Some(T_TXT), Some(v), None, None)>>, <<>>) :
            v \in TxtInputs}
    \cup {DaAnswer(status, FALSE, <<>>, lines) : status \in DaStatuses, lines \in TextBodies}

\* What Cloudflare answers the zone lookup with, attempt after attempt.
ZoneServers ==
    {server \in [flaky : 0..(RetryTotal + 1), flaky_status : {429, 503},
                  status : {200, 300, 404}, json : BOOLEAN,
                  result : {<<>>, <<ZoneId>>, <<ZoneId, <<"z","2">>>>}] :
        /\ server.status = 200 => server.json
        /\ server.flaky = 0 => server.flaky_status = 503}

\* The rows of a target zone as Cloudflare lists them: names in lower and
\* upper case, with and without a trailing dot.
CfRawNames ==
    <<ExampleDomain, <<"W","W","W",".","E","X",".","C","O",".">>, S_www \o <<".">> \o ExampleDomain,
      <<"A",".","E","x",".","C","o">>>>

ListingRow(i) ==
    CfRow(Some(str_int(i)), IF i % 2 = 0 THEN T_A ELSE T_TXT,
          CfRawNames[(i % Len(CfRawNames)) + 1], <<"\"","v","\"">>, Some(1), None, None, None)

ListingSizes == {k * per_page + d : k \in 0..(MaxPages - 1), d \in {0, 1, per_page - 1}}

\* A zone of n rows; the request of page fail_page, if any, is answered 404.
ListServers == [n : ListingSizes, fail_page : {0, 2}]

PageOf(server, page) ==
    LET first == (page - 1) * per_page
        left == IF server.n > first THEN server.n - first ELSE 0
    IN  [i \in 1..(IF left < per_page THEN left ELSE per_page) |-> ListingRow(first + i)]

\* A loop that goes on until a page is empty.
is_last_page_when_empty(result) == Len(result) = 0

\* if len(result) < per_page: break
is_last_page(result) == Len(result) < per_page

\* DirectAdminClient.get_dns_records is called and returns.
DaGetDnsRecords ==
    /\ client.at = "idle"
    /\ \E resp \in DaAnswers :
          client' = [NoCall EXCEPT !.fn = "get_dns_records", !.at = "returned",
                                   !.answer = resp,
                                   !.records = da_get_dns_records(resp, ExampleDomain)]
    /\ UNCHANGED <<service_vars, adapter>>

\* CloudflareClient.find_zone_by_name is called and returns or raises.
CfFindZoneByName ==
    /\ client.at = "idle"
    /\ \E server \in ZoneServers :
          LET out == find_zone_by_name(server)
          IN  client' = [NoCall EXCEPT !.fn = "find_zone_by_name",
                                       !.at = IF out.raised # None THEN "raised" ELSE "returned",
                                       !.answer = server,
                                       !.returned = out.returned,
                                       !.raised = out.raised,
                                       !.attempts = retrying_get(server, 1, RetryTotal).attempts]
    /\ UNCHANGED <<service_vars, adapter>>

\* CloudflareClient.list_dns_records is called: page = 1, records = [].
CfListDnsRecords ==
    /\ client.at = "idle"
    /\ \E server \in ListServers :
          client' = [NoCall EXCEPT !.fn = "list_dns_records", !.at = "page",
                                   !.answer = server, !.page = 1]
    /\ UNCHANGED <<service_vars, adapter>>

\* One pass of the while loop: the page is requested, its rows are
\* normalized and appended, and the loop ends or goes to the next page.
CfListPage ==
    /\ client.fn = "list_dns_records"
    /\ client.at = "page"
    /\ \E result \in {PageOf(client.answer, client.page)} :
           IF client.answer.fail_page = client.page
           THEN client' = [client EXCEPT !.at = "raised", !.raised = Some("HTTPError"),
                                         !.pages = Append(@, client.page)]
           ELSE client' = [client EXCEPT
                    !.pages = Append(@, client.page),
                    !.records = @ \o list_dns_records(result),
                    !.at = IF is_last_page(result) THEN "returned" ELSE "page",
                    !.page = IF is_last_page(result) THEN @ ELSE @ + 1]
    /\ UNCHANGED <<service_vars, adapter>>

NextClient ==
    \/ DaGetDnsRecords
    \/ CfFindZoneByName
    \/ CfListDnsRecords
    \/ CfListPage

InitClient ==
    /\ InitZones({<<>>}, {<<>>}, {DefaultSettings}, {}, 0)
    /\ db_zone_id = None

SpecClient == InitClient /\ [][NextClient]_vars

\* The loop of list_dns_records goes on: every request is answered.
SpecClientLive == SpecClient /\ WF_vars(CfListPage)

\* ------------------------------------------------------------------------
\* The functions on records, applied to records of every shape.
\* ------------------------------------------------------------------------

\* Records for record_key: types and names in lower, upper and mixed case,
\* priorities unset, 0 and positive.
KeyTypes == {T_A, <<"a">>, T_MX, <<"m","x">>, <<"M","x">>, T_SRV, T_TXT}

KeyFqdns == {S_www \o <<".">> \o ExampleDomain, <<"W","W","W",".","E","X",".","C","O">>,
             <<"W","w","w",".","e","x",".","c","o">>, ExampleDomain}

KeyPriorities == {None, Some(0), Some(10)}

KeyRecords ==
    {DNSRecord(type, S_www, fqdn, <<"1">>, None, priority, None, None, None) :
        type \in KeyTypes, fqdn \in KeyFqdns, priority \in KeyPriorities}

\* Records for _to_cf_payload: contents with no, one and two quotes, the
\* optional fields unset, falsy and set.
PayloadTypes == {T_A, T_AAAA, T_CNAME, T_TXT, T_MX, T_SRV, T_CAA, <<"t","x","t">>, <<"m","x">>}

PayloadContents == {<<>>, <<"v">>, <<"\"">>, <<"\"","v","\"">>, <<"\"","v">>, <<"v","\"">>}

PayloadRecords ==
    {DNSRecord(type, S_www, S_www \o <<".">> \o ExampleDomain, content, ttl, priority, proxied,
               comment, None) :
        type \in PayloadTypes, content \in PayloadContents, ttl \in {None, Some(0), Some(300)},
        priority \in {None, Some(0), Some(10)}, proxied \in {None, Some(TRUE), Some(FALSE)},
        comment \in {None, Some(<<>>), Some(<<"c">>)}}

\* record_key is applied to two records.
RecordKey ==
    /\ client.at = "idle"
    /\ \E a \in KeyRecords, b \in KeyRecords :
          client' = [NoCall EXCEPT !.fn = "record_key", !.at = "returned",
                                   !.answer = <<a, b>>,
                                   !.returned = <<record_key(a), record_key(b)>>]
    /\ UNCHANGED <<service_vars, adapter>>

\* _to_cf_payload is applied to a record.
ToCfPayload ==
    /\ client.at = "idle"
    /\ \E record \in PayloadRecords :
          client' = [NoCall EXCEPT !.fn = "_to_cf_payload", !.at = "returned",
                                   !.answer = Some(record),
                                   !.returned = Some(_to_cf_payload(record))]
    /\ UNCHANGED <<service_vars, adapter>>

NextRecords ==
    \/ RecordKey
    \/ ToCfPayload

SpecRecords == InitClient /\ [][NextRecords]_vars

\* ------------------------------------------------------------------------
\* One DirectAdminClient instance, called again and again, against a server
\* that answers every request in any way.
\* ------------------------------------------------------------------------

\* Calls made on the one adapter instance.
MaxAdapterCalls == 2

\* A pointer of ExampleDomain, and another one.
S_alias == <<"a","l",".","c","o">>

S_alias2 == <<"p","2",".","c","o">>

S_list == <<"l","i","s","t","[","]">>

\* Bodies of the pointer endpoints: no pointer; list[]=al_co; al_co=ex_co
\* (the pointer as key, its base domain as value); list[]=p2_co.
PointerBodies ==
    {<<>>, <<<<S_list, <<"a","l","_","c","o">>>>>>, <<<<<<"a","l","_","c","o">>, <<"e","x","_","c","o">>>>>>,
     <<<<S_list, <<"p","2","_","c","o">>>>>>}

\* What a pointer endpoint answers: the request raises, 200 with a body, or
\* 500 with a body that names a pointer.
PointerAnswers ==
    {DaResponse(TRUE, 0, <<>>)}
    \cup {DaResponse(FALSE, 200, body) : body \in PointerBodies}
    \cup {DaResponse(FALSE, 500, <<<<S_list, <<"a","l","_","c","o">>>>>>)}

\* What CMD_API_SHOW_DOMAINS answers: the request raises, 500, 200 with no
\* domain, 200 with list[]=ex_co.
ShowAnswers ==
    {DaResponse(TRUE, 0, <<>>), DaResponse(FALSE, 500, <<>>), DaResponse(FALSE, 200, <<>>),
     DaResponse(FALSE, 200, <<<<S_list, <<"e","x","_","c","o">>>>>>)}

\* What the record query answers.
DnsAnswers ==
    {DaAnswer(200, TRUE, <<DaRow(Some(S_www), Some(T_A), Some(<<"1">>), None, None)>>, <<>>),
     DaAnswer(500, FALSE, <<>>, <<>>)}

\* The answers that matter to a call: one choice when nothing is populated.
LazyShowAnswers == IF needs_population(adapter.pointer_map) THEN ShowAnswers ELSE {<<>>}

LazyPointerAnswers ==
    IF needs_population(adapter.pointer_map) THEN PointerAnswers \X PointerAnswers ELSE {<<>>}

\* list_domain_pointers(ExampleDomain) is called and returns.
ListDomainPointers ==
    /\ adapter.calls < MaxAdapterCalls
    /\ \E answers \in PointerAnswers \X PointerAnswers :
          LET out == list_domain_pointers(adapter.pointer_map, ExampleDomain, answers)
          IN  adapter' = [NewAdapter EXCEPT
                  !.pointer_map = out.pointer_map, !.lazy = adapter.lazy,
                  !.calls = adapter.calls + 1, !.fn = "list_domain_pointers",
                  !.arg = ExampleDomain, !.answers = answers, !.returned = out.returned,
                  !.before = adapter.pointer_map]
    /\ UNCHANGED <<service_vars, client>>

\* resolve_base_domain(domain) is called and returns.
ResolveBaseDomain ==
    /\ adapter.calls < MaxAdapterCalls
    /\ \E domain \in {ExampleDomain, S_alias}, show \in LazyShowAnswers,
          answers \in LazyPointerAnswers :
          LET out == resolve_base_domain(adapter.pointer_map, domain, show, answers)
          IN  adapter' = [NewAdapter EXCEPT
                  !.pointer_map = out.pointer_map, !.lazy = adapter.lazy + out.lazy,
                  !.calls = adapter.calls + 1, !.fn = "resolve_base_domain",
                  !.arg = domain, !.populated = out.lazy = 1, !.failed = out.failed,
                  !.returned = out.returned, !.before = adapter.pointer_map]
    /\ UNCHANGED <<service_vars, client>>

\* get_dns_records(domain) is called on the adapter and returns.
AdapterGetDnsRecords ==
    /\ adapter.calls < MaxAdapterCalls
    /\ \E domain \in {ExampleDomain, S_alias}, show \in LazyShowAnswers,
          answers \in LazyPointerAnswers, resp \in DnsAnswers :
          LET out == dns_control_request(adapter.pointer_map, domain, show, answers)
          IN  adapter' = [NewAdapter EXCEPT
                  !.pointer_map = out.pointer_map, !.lazy = adapter.lazy + out.lazy,
                  !.calls = adapter.calls + 1, !.fn = "get_dns_records",
                  !.arg = domain, !.populated = out.lazy = 1, !.url = out.url,
                  !.returned = da_get_dns_records(resp, domain),
                  !.before = adapter.pointer_map]
    /\ UNCHANGED <<service_vars, client>>

NextAdapter ==
    \/ ListDomainPointers
    \/ ResolveBaseDomain
    \/ AdapterGetDnsRecords

SpecAdapter == InitClient /\ [][NextAdapter]_vars

\* A run that was started goes on: every call returns and every thread is
\* scheduled.  Nothing obliges a trigger to start a run.
Proceed(t) ==
    \/ GetDnsRecords(t)
    \/ PlanFindZone(t)
    \/ ListAndPlan(t)
    \/ GetLockCheck(t)
    \/ GetLockCreate(t)
    \/ GetLockReturn(t)
    \/ Acquire(t)
    \/ ApplyFindZone(t)
    \/ Dispatch(t)
    \/ \E i \in 1..Len(ops[t]) : StartOp(t, i)
    \/ \E i \in 1..Len(ops[t]) : FinishOp(t, i)
    \/ Finish(t)
    \/ Release(t)

\* Both triggers on one domain whose target zone is empty, with runs that go on.
InitLive == InitWith({<<Row_www_A>>}, {<<>>}, Threads, MaxRunsLive)

SpecLive == InitLive /\ [][Next]_vars /\ \A t \in Threads : WF_vars(Proceed(t))

\* Target rows as a caller's plan may carry them: without an id.
Cf_noid_www ==
    CfRow(None, T_A, S_www \o <<".">> \o ExampleDomain, <<"2">>, Some(1), None, Some(FALSE), None)

Cf_noid_txt ==
    CfRow(None, T_TXT, <<"o",".">> \o ExampleDomain, <<"\"","o","\"">>, None, None, None, None)

\* A plan whose update and delete operations carry no current record, and
\* which lists a skip.
PlanWithoutCurrent ==
    LET www == normalize_da_record(Row_www_A, ExampleDomain)
        txt == normalize_cf_record(Cf_noid_txt)
    IN  SyncPlan(ExampleDomain, <<>>,
                 <<PlanOperation("update", www, None, None)>>,
                 <<PlanOperation("delete", txt, None, None)>>,
                 <<>>,
                 <<PlanOperation("skip", txt, None, None)>>)

\* apply_plan(session, domain, plan) is called with a plan the caller holds:
\* computed earlier from some desired and current records, for a domain with
\* or without a cached zone id, against the target as it is now, while the
\* scheduled job runs on the same domain.
InitApply ==
    /\ da_rows = <<Row_www_A>>
    /\ cf_rows \in {<<>>, <<Cf_www_A(<<"1">>), Cf_ptr(<<"2">>)>>}
    /\ cf_next_id = Len(cf_rows) + 1
    /\ db_zone_id \in {None, Some(ZoneId)}
    /\ settings = DefaultSettings
    /\ domain_locks = <<>>
    /\ locks = <<>>
    /\ triggers = Threads
    /\ budget = [t \in Threads |-> IF t = "manual" THEN 0 ELSE MaxRunsApply]
    /\ acme_only = [t \in Threads |-> FALSE]
    /\ pc = [t \in Threads |-> IF t = "manual" THEN "get_lock" ELSE "idle"]
    /\ zone_id = [t \in Threads |-> IF t = "manual" THEN db_zone_id ELSE None]
    /\ da_records = [t \in Threads |-> <<>>]
    /\ cf_records = [t \in Threads |-> <<>>]
    /\ \E held \in {_compute_plan(ExampleDomain, get_dns_records(da_rows, ExampleDomain),
                                    list_dns_records(then), settings.policy,
                                    managed_record_types, settings.exclude_patterns) :
                         then \in {<<>>, <<Cf_www_A(<<"1">>), Cf_ptr(<<"2">>)>>,
                                   <<Cf_noid_www, Cf_noid_txt>>}}
                    \cup {PlanWithoutCurrent} :
          plan = [t \in Threads |-> IF t = "manual" THEN held ELSE EmptyPlan]
    /\ lock = [t \in Threads |-> None]
    /\ run = [t \in Threads |-> SyncRun("pending")]
    /\ ops = [t \in Threads |-> <<>>]
    /\ counts = [t \in Threads |-> NewCounts]
    /\ obs = [t \in Threads |-> NewObs]
    /\ calls = {}
    /\ client = NoCall
    /\ adapter = NewAdapter

SpecApply == InitApply /\ [][Next]_vars

\* ------------------------------------------------------------------------
\* Properties
\* ------------------------------------------------------------------------

\* The plan _compute_plan returns for the run's desired records and the
\* records the target holds now.
Recomputed(t) ==
    _compute_plan(ExampleDomain, da_records[t], list_dns_records(cf_rows), settings.policy,
                  managed_record_types, settings.exclude_patterns)

\* The run of t planned, applied its plan, and every target call succeeded.
AppliedCleanly(t) ==
    /\ pc[t] \in {"release", "done"}
    /\ obs[t].planned /\ obs[t].dispatched
    /\ obs[t].create_raised = 0 /\ obs[t].update_raised = 0 /\ obs[t].delete_raised = 0

\* C1: convergence.  After apply_plan applied the plan _compute_plan computed,
\* with every target call succeeding, the plan recomputed from the same
\* desired records and the resulting target records has no create, no update
\* and no delete.
C1_Convergence ==
    \A t \in Threads :
        AppliedCleanly(t) =>
            /\ Recomputed(t).creates = <<>>
            /\ Recomputed(t).updates = <<>>
            /\ Recomputed(t).deletes = <<>>

\* The triggers whose apply_plan is inside `with lock:`.
InLockedSection == {t \in Threads : pc[t] \in {"apply_find_zone", "dispatch", "workers",
                                               "release"}}

\* C2: per-domain mutual exclusion.  At most one apply_plan call for the
\* domain is inside the locked section at any instant, callers that are the
\* first to use the domain name included.
C2_MutualExclusion == Cardinality(InLockedSection) <= 1

\* C3: a failed source fetch is not an empty desired set.  A run whose
\* get_dns_records got a non-2xx answer issues no delete of a target record.
C3_FailedFetchDeletesNothing ==
    \A t \in Threads : obs[t].da_failed => obs[t].deletes = 0

\* The managed types, as _compute_plan holds them.
ManagedSet == {upper(managed_record_types[i]) : i \in 1..Len(managed_record_types)}

\* rec, listed at the target, has a key no kept desired record has.
CurrentOnly(t, rec) ==
    /\ kept(rec, settings.exclude_patterns)
    /\ \A i \in 1..Len(da_records[t]) :
          kept(da_records[t][i], settings.exclude_patterns)
              => record_key(da_records[t][i]) # record_key(rec)

\* C4: managed-type delete guard.  A record present only at the target whose
\* type is not managed is a noop of the plan and never a delete, and no run
\* issues a delete call for a record of an unmanaged type.
C4_ManagedDeleteGuard ==
    /\ \A t \in Threads :
          /\ \A op \in Range(plan[t].deletes) : upper(op.record.type) \in ManagedSet
          /\ obs[t].planned =>
                \A i \in 1..Len(cf_records[t]) :
                    LET rec == cf_records[t][i]
                    IN  (upper(rec.type) \notin ManagedSet /\ CurrentOnly(t, rec)) =>
                            /\ \E op \in Range(plan[t].noops) :
                                  record_key(op.record) = record_key(rec)
                            /\ \A op \in Range(plan[t].deletes) :
                                  record_key(op.record) # record_key(rec)
    /\ \A c \in calls : c.kind = "delete" => c.rtype \in ManagedSet

\* A finished run that deleted a managed record and left the PTR record,
\* present at the target only, as a noop.
C4_Witness ==
    \E t \in Threads :
        /\ pc[t] = "done" /\ obs[t].planned /\ obs[t].deletes > 0
        /\ \E i \in 1..Len(cf_records[t]) :
              /\ upper(cf_records[t][i].type) = T_PTR
              /\ CurrentOnly(t, cf_records[t][i])
              /\ HasRow(cf_rows, cf_records[t][i].cf_id[1])

\* C5: no plan holds an operation (create, update, delete or noop) for an NS
\* or SOA record, and no run creates, updates or deletes one at the target.
C5_NoNsSoa ==
    /\ \A t \in Threads :
          \A op \in Range(plan_ops(plan[t])) \cup Range(plan[t].skips) :
              /\ upper(op.record.type) \notin {T_NS, T_SOA}
              /\ op.current # None => upper(op.current[1].type) \notin {T_NS, T_SOA}
    /\ \A c \in calls :
          c.kind \in {"create", "update", "delete"} => c.rtype \notin {T_NS, T_SOA}

\* A finished run that changed the target while the source and the target
\* both held an NS record.
C5_Witness ==
    \E t \in Threads :
        /\ pc[t] = "done" /\ obs[t].planned /\ obs[t].mutations > 0
        /\ \E i \in 1..Len(da_records[t]) : upper(da_records[t][i].type) = T_NS
        /\ \E i \in 1..Len(cf_records[t]) : upper(cf_records[t][i].type) = T_NS

\* _apply_operations of t's apply_plan returned.
Applied(t) == pc[t] \in {"release", "done"} /\ obs[t].dispatched

\* C6: if a create or update operation of an apply raised, whatever the
\* message of the exception, the run's status is partial and not success.
C6_PartialOnError ==
    \A t \in Threads :
        (Applied(t) /\ obs[t].create_raised + obs[t].update_raised > 0)
            => run[t].status = "partial"

\* C7: partial failure aggregation.  For a plan with n creates of which k
\* raised (and no update raised), the run ends with created = n - k, k
\* entries in the error list, and status partial when k > 0.
C7_PartialAggregation ==
    \A t \in Threads :
        (Applied(t) /\ obs[t].update_raised = 0) =>
            /\ run[t].created_count = Len(plan[t].creates) - obs[t].create_raised
            /\ Len(counts[t].errors) = obs[t].create_raised
            /\ obs[t].create_raised > 0 => run[t].status = "partial"

\* The create, update and delete operations of a plan.
MutatingOps(p) == Range(p.creates) \cup Range(p.updates) \cup Range(p.deletes)

\* C8: failure isolation.  Every create, update and delete operation of the
\* plan is attempted exactly once whether or not other operations raised, no
\* operation's exception escapes apply_plan (it returns the finished run, and
\* not through its except branch), and what succeeded stays applied.
C8_FailureIsolation ==
    \A t \in Threads :
        /\ \A op \in MutatingOps(plan[t]) : CopiesIn(op, obs[t].attempted) <= 1
        /\ Applied(t) =>
              /\ \A op \in MutatingOps(plan[t]) : CopiesIn(op, obs[t].attempted) = 1
              /\ run[t].finished /\ run[t].status \in {"success", "partial"}
        /\ obs[t].dispatched => pc[t] \in {"workers", "release", "done"}
        /\ \A a \in obs[t].applied :
              IF a.kind = "delete" THEN ~HasRow(cf_rows, a.id) ELSE HasRow(cf_rows, a.id)

\* An apply of several operations ended: a create raised, another call was
\* accepted by the target.
C8_Witness ==
    \E t \in Threads :
        /\ pc[t] = "done" /\ obs[t].dispatched
        /\ Cardinality(MutatingOps(plan[t])) >= 2
        /\ obs[t].create_raised > 0
        /\ obs[t].applied # {}

\* C9: when the domain has no cached zone id and find_zone_by_name returns
\* None, apply_plan ends with status failed and the zone-not-found summary
\* and makes no create, update or delete call, whatever the plan holds.
C9_ZoneNotFound ==
    \A t \in Threads :
        obs[t].zone_none =>
            /\ pc[t] \in {"release", "done"}
            /\ run[t].status = "failed" /\ run[t].finished
            /\ run[t].error_summary = Some(S_zone_not_found)
            /\ ~obs[t].dispatched
            /\ obs[t].mutations = 0

\* apply_plan returned after the lookup gave None, for a plan that holds
\* operations that would have changed the target.
C9_Witness ==
    \E t \in Threads :
        /\ pc[t] = "done" /\ obs[t].zone_none
        /\ MutatingOps(plan[t]) # {}
        /\ \E op \in MutatingOps(plan[t]) : worker_call(op) # "none"

\* C10: ordering inside an apply.  The lock is acquired first; the zone
\* lookup is made only when no zone id is cached, at most once, while the lock
\* is held and before any operation is dispatched; every create, update and
\* delete call is made while the apply holds the lock.
C10_Ordering ==
    /\ \A t \in Threads :
          /\ pc[t] \in {"apply_find_zone", "dispatch", "workers", "release"} => HoldsLock(t)
          /\ obs[t].lookups <= 1
          /\ obs[t].mutations > 0 => obs[t].dispatched
    /\ \A c \in calls :
          /\ c.locked
          /\ c.kind = "find_zone" => ~c.cached /\ ~c.dispatched
          /\ c.kind \in {"create", "update", "delete"} => c.dispatched

\* An apply looked the zone up and then changed the target, while the
\* other trigger was inside its own run.
C10_Witness ==
    \E t \in Threads :
        /\ pc[t] \in {"workers", "release", "done"}
        /\ obs[t].lookups = 1 /\ obs[t].mutations > 0
        /\ \E c \in calls : c.kind = "find_zone" /\ c.by = t
        /\ \E u \in Threads \ {t} : pc[u] \notin {"idle", "done", "aborted"}

\* C11: the domain lock is released at the end of every apply_plan, whether
\* it ends success, partial or failed or an exception is raised inside the
\* locked section; so an apply_plan that waits for the lock of the domain
\* eventually acquires it.
C11_LockReleased ==
    /\ [](\A t \in Threads : pc[t] \in {"idle", "done", "aborted"} => ~HoldsLock(t))
    /\ \A t \in Threads : HoldsLock(t) ~> ~HoldsLock(t)
    /\ \A t \in Threads : (pc[t] = "acquire") ~> HoldsLock(t)

\* One apply ended failed inside the locked section, and the other trigger's
\* apply holds the same lock object after it.
C11_Witness ==
    \E t \in Threads : \E u \in Threads \ {t} :
        /\ lock[t] # None /\ lock[t] = lock[u]
        /\ pc[u] = "done" /\ run[u].status = "failed"
        /\ HoldsLock(t)

\* An update or delete operation without a current record or without its
\* remote id.
MissingId(op) ==
    /\ op.action \in {"update", "delete"}
    /\ (op.current = None \/ ~TruthyStr(op.current[1].cf_id))

\* C12: a delete operation whose target call raises is counted as skipped,
\* adds no entry to the error list and leaves the status alone: a run whose
\* only failures are delete failures ends success.
C12_DeleteFailureSkipped ==
    \A t \in Threads :
        Applied(t) =>
            /\ run[t].skipped_count =
                  obs[t].delete_raised + Cardinality({op \in MutatingOps(plan[t]) : MissingId(op)})
            /\ run[t].deleted_count + obs[t].delete_raised
                  = Cardinality({op \in Range(plan[t].deletes) : ~MissingId(op)})
            /\ Len(counts[t].errors) <= obs[t].create_raised + obs[t].update_raised
            /\ (obs[t].create_raised = 0 /\ obs[t].update_raised = 0)
                  => run[t].status = "success" /\ run[t].error_summary = None

\* A finished run whose delete call raised and nothing else failed: it
\* counted the delete as skipped and ended success.
C12_Witness ==
    \E t \in Threads :
        /\ pc[t] = "done" /\ obs[t].dispatched
        /\ obs[t].delete_raised > 0
        /\ obs[t].create_raised = 0 /\ obs[t].update_raised = 0
        /\ run[t].skipped_count > 0 /\ run[t].status = "success"

\* C13: an update or delete operation whose current record is absent or has
\* no remote id is counted as skipped, makes no call against the target and
\* adds no entry to the error list.
C13_MissingIdSkipped ==
    \A t \in Threads :
        /\ \A op \in obs[t].called : ~MissingId(op)
        /\ Applied(t) =>
              /\ run[t].skipped_count - obs[t].delete_raised
                    = Cardinality({op \in MutatingOps(plan[t]) : MissingId(op)})
              /\ obs[t].mutations
                    = Cardinality({op \in MutatingOps(plan[t]) : ~MissingId(op)})
              /\ Len(counts[t].errors) <= obs[t].create_raised + obs[t].update_raised

\* A finished apply of a plan that held an update and a delete without a
\* remote id, one of them without a current record.
C13_Witness ==
    \E t \in Threads :
        /\ pc[t] = "done" /\ obs[t].dispatched
        /\ \E op \in Range(plan[t].updates) : MissingId(op)
        /\ \E op \in Range(plan[t].deletes) : MissingId(op)
        /\ \E op \in MutatingOps(plan[t]) : op.current = None
        /\ run[t].skipped_count = 2 /\ obs[t].mutations = 0 /\ counts[t].errors = <<>>

\* An apply skipped an operation whose current record is there but has no
\* remote id.
C13_WitnessNoId ==
    \E t \in Threads :
        /\ pc[t] = "done" /\ obs[t].dispatched
        /\ \E op \in MutatingOps(plan[t]) : MissingId(op) /\ op.current # None

\* The operations of t's apply whose target call is in progress.
CallsInProgress(t) ==
    {i \in 1..Len(ops[t]) :
        ops[t][i] = "running" /\ worker_call(plan_ops(plan[t])[i]) # "none"}

\* C14: bounded concurrency.  At no instant of an apply are more target calls
\* in progress than sync_concurrency, and the noop and skip entries of the plan
\* cause no target call.
C14_BoundedConcurrency ==
    \A t \in Threads :
        /\ Cardinality(CallsInProgress(t)) <= sync_concurrency
        /\ Running(t) <= sync_concurrency
        /\ \A op \in obs[t].called :
              /\ op.action \in {"create", "update", "delete"}
              /\ op \notin Range(plan[t].noops) \cup Range(plan[t].skips)

\* As many target calls are in progress as the pool has workers, another
\* operation waits, and the plan holds a noop.
C14_Witness ==
    \E t \in Threads :
        /\ pc[t] = "workers"
        /\ Cardinality(CallsInProgress(t)) = sync_concurrency
        /\ \E i \in 1..Len(ops[t]) :
              ops[t][i] = "submitted" /\ worker_call(plan_ops(plan[t])[i]) # "none"
        /\ plan[t].noops # <<>>

\* Every entry of a plan, the skips included.
PlanEntries(p) == Range(plan_ops(p)) \cup Range(p.skips)

\* The plan p holds an operation for the identity key of rec.
InPlan(p, rec) ==
    \E op \in PlanEntries(p) :
        \/ record_key(op.record) = record_key(rec)
        \/ op.current # None /\ record_key(op.current[1]) = record_key(rec)

\* The records the plan of t was computed from.
PlannedFrom(t) == Range(da_records[t]) \cup Range(cf_records[t])

\* C15: ACME exemption.  A desired or current record whose name starts with
\* _acme-challenge (or whose fqdn starts with _acme-challenge.) appears in the
\* plan even when its name or fqdn matches an exclusion pattern, the pattern *
\* included.
C15_AcmeExempt ==
    \A t \in Threads :
        obs[t].planned =>
            \A rec \in PlannedFrom(t) : is_acme_challenge(rec) => InPlan(plan[t], rec)

\* C16: ACME-only variant.  Every operation of a plan of
\* compute_plan_for_domain_acme_only refers to a record whose name starts with
\* _acme-challenge, and an ACME-only run creates, updates and deletes no
\* target record whose name does not.
C16_AcmeOnly ==
    /\ \A t \in Threads :
          acme_only[t] =>
              \A op \in PlanEntries(plan[t]) :
                  /\ startswith(op.record.name, S_acme)
                  /\ op.current # None => startswith(op.current[1].name, S_acme)
    /\ \A c \in calls :
          (c.acme_only /\ c.kind \in {"create", "update", "delete"})
              => startswith(c.name, S_acme)

\* An ACME-only run changed the target while the source holds a record that
\* is no ACME challenge and that the target lacks.
C16_Witness ==
    \E t \in Threads :
        /\ acme_only[t] /\ pc[t] = "done" /\ obs[t].planned /\ obs[t].mutations > 0
        /\ \E i \in 1..Len(da_rows) :
              LET rec == normalize_da_record(da_rows[i], ExampleDomain)
              IN  /\ ~startswith(rec.name, S_acme)
                  /\ kept(rec, settings.exclude_patterns)
                  /\ \A j \in 1..Len(cf_rows) :
                        record_key(normalize_cf_record(cf_rows[j])) # record_key(rec)

\* rec is no ACME-challenge record and an exclusion pattern matches its
\* relative name or its fqdn.
Excluded(rec) ==
    /\ ~is_acme_challenge(rec)
    /\ should_exclude(rec, settings.exclude_patterns)

\* C17: exclusion.  A desired or current record that is no ACME-challenge
\* record and whose relative name or fqdn matches an exclusion pattern is in
\* no list of the plan, and is never created, updated or deleted.
C17_Exclusion ==
    /\ \A t \in Threads :
          \A op \in PlanEntries(plan[t]) :
              /\ ~Excluded(op.record)
              /\ op.current # None => ~Excluded(op.current[1])
    /\ \A c \in calls :
          c.kind \in {"create", "update", "delete"} => ~Excluded([name |-> c.name, fqdn |-> c.fqdn])

\* A finished run changed the target while a desired record and a current
\* record were excluded by a pattern.
C17_Witness ==
    \E t \in Threads :
        /\ pc[t] = "done" /\ obs[t].planned /\ obs[t].mutations > 0
        /\ \E rec \in Range(da_records[t]) : Excluded(rec)
        /\ \E rec \in Range(cf_records[t]) : Excluded(rec)

\* The truth table of the proxy policy: no value for a type other than A,
\* AAAA and CNAME; else the toggle of the type and the toggle of the kind of
\* name (host for @, www and the empty name in any case, subdomain for every
\* other name).
TypeToggle(policy, rec) ==
    \/ upper(rec.type) = T_A /\ policy.proxy_a
    \/ upper(rec.type) = T_AAAA /\ policy.proxy_aaaa
    \/ upper(rec.type) = T_CNAME /\ policy.proxy_cname

HostName(rec) == lower(rec.name) \in {<<"@">>, <<"w","w","w">>, <<>>}

ExpectedProxied(policy, rec) ==
    IF upper(rec.type) \notin {T_A, T_AAAA, T_CNAME} THEN None
    ELSE Some(/\ TypeToggle(policy, rec)
              /\ (IF HostName(rec) THEN policy.proxy_host ELSE policy.proxy_sub))

\* C18: desired_proxied.  For every record the planner received and every
\* combination of the five toggles, desired_proxied returns none when the type
\* is not A, AAAA or CNAME, false when the toggle of the record's type is off,
\* and otherwise the host toggle for the names @, www and empty (lowercased)
\* and the subdomain toggle for every other name; the planner wrote that value
\* into the record.
C18_DesiredProxied ==
    \A t \in Threads :
        obs[t].planned =>
            /\ \A rec \in Range(obs[t].given) \cup Range(cf_records[t]) :
                  desired_proxied(settings.policy, rec) = ExpectedProxied(settings.policy, rec)
            /\ \A i \in 1..Len(obs[t].given) :
                  LET expected == ExpectedProxied(settings.policy, obs[t].given[i])
                  IN  da_records[t][i].proxied =
                          IF expected = None THEN obs[t].given[i].proxied ELSE expected

\* The planner ran under a policy whose host and subdomain toggles differ and
\* whose A and AAAA toggles differ, on a host name in upper case and the
\* empty name, and resolved one record to proxied and one to not proxied.
C18_Witness ==
    \E t \in Threads :
        /\ obs[t].planned
        /\ settings.policy.proxy_host # settings.policy.proxy_sub
        /\ settings.policy.proxy_a # settings.policy.proxy_aaaa
        /\ \E rec \in Range(obs[t].given) : rec.name = <<"W","W","W">>
        /\ \E rec \in Range(obs[t].given) : rec.name = <<>>
        /\ \E rec \in Range(da_records[t]) : rec.proxied = Some(TRUE)
        /\ \E rec \in Range(da_records[t]) : rec.proxied = Some(FALSE)

\* The policy and the desired records of test_proxy_policy_enforced_in_plan,
\* planned against an empty target.
MatrixPolicy == ProxyPolicy(TRUE, FALSE, TRUE, TRUE, TRUE)

MatrixPlanned(t) ==
    /\ obs[t].planned
    /\ settings.policy = MatrixPolicy
    /\ cf_records[t] = <<>>
    /\ [i \in 1..Len(obs[t].given) |->
           <<obs[t].given[i].name, obs[t].given[i].type>>]
           = <<<<S_www, T_A>>, <<S_www, T_AAAA>>, <<S_blog, T_CNAME>>>>

ProxiedOf(type, list) ==
    {list[i].record.proxied : i \in {j \in 1..Len(list) : list[j].record.type = type}}

\* C19: policy enforcement.  Every A, AAAA or CNAME record in a create or an
\* update operation of the plan carries proxied equal to desired_proxied of
\* the record under the policy, whatever proxied value the record came in
\* with; under the toggles A on, AAAA off, CNAME on, host on, sub on the
\* records www/A, www/AAAA, blog/CNAME against an empty target give three
\* creates with proxied true, false, true.
C19_PolicyEnforced ==
    \A t \in Threads :
        /\ \A op \in Range(plan[t].creates) \cup Range(plan[t].updates) :
              upper(op.record.type) \in {T_A, T_AAAA, T_CNAME} =>
                  op.record.proxied = ExpectedProxied(settings.policy, op.record)
        /\ MatrixPlanned(t) =>
              /\ Len(plan[t].creates) = 3
              /\ Len(plan[t].updates) = 0
              /\ ProxiedOf(T_A, plan[t].creates) = {Some(TRUE)}
              /\ ProxiedOf(T_AAAA, plan[t].creates) = {Some(FALSE)}
              /\ ProxiedOf(T_CNAME, plan[t].creates) = {Some(TRUE)}

\* The three records of the test were planned under its policy, the A record
\* came in with proxied false and the AAAA record with none.
C19_Witness ==
    \E t \in Threads :
        /\ MatrixPlanned(t)
        /\ obs[t].given[1].proxied = Some(FALSE)
        /\ obs[t].given[2].proxied = None
        /\ Len(plan[t].creates) = 3

\* An update operation carries a proxied value that the desired record did
\* not come in with.
C19_WitnessUpdate ==
    \E t \in Threads :
        /\ obs[t].planned
        /\ \E op \in Range(plan[t].updates) :
              /\ "proxied" \in DOMAIN op.changes
              /\ \E rec \in Range(obs[t].given) :
                    /\ record_key(rec) = record_key(op.record)
                    /\ rec.proxied # op.record.proxied

\* The content compared: a CNAME target without trailing dots, any other
\* content as it is.
ComparedContent(rec) ==
    IF upper(rec.type) = T_CNAME THEN rstrip(rec.content, {"."}) ELSE rec.content

\* The fields in which the desired record d and the current record c differ:
\* normalized content, ttl, priority (an absent number counts as 0) and the
\* proxied flag the policy resolves for d (an absent current flag counts as
\* false; a type without proxying never differs).
Differing(d, c) ==
    {f \in {"content"} : ComparedContent(d) # ComparedContent(c)}
    \cup {f \in {"ttl"} : OrZero(d.ttl) # OrZero(c.ttl)}
    \cup {f \in {"priority"} : OrZero(d.priority) # OrZero(c.priority)}
    \cup {f \in {"proxied"} :
             /\ ExpectedProxied(settings.policy, d) # None
             /\ ExpectedProxied(settings.policy, d) # Some(c.proxied = Some(TRUE))}

\* The kept records of a list that a later kept record of the list shares
\* its identity key with.
Shadowed(list) ==
    {list[i] : i \in {j \in 1..Len(list) :
        /\ kept(list[j], settings.exclude_patterns)
        /\ \E k \in (j + 1)..Len(list) :
              /\ kept(list[k], settings.exclude_patterns)
              /\ record_key(list[k]) = record_key(list[j])}}

LastOf(list) ==
    {list[i] : i \in {j \in 1..Len(list) :
        /\ kept(list[j], settings.exclude_patterns)
        /\ \A k \in (j + 1)..Len(list) :
              ~(kept(list[k], settings.exclude_patterns)
                  /\ record_key(list[k]) = record_key(list[j]))}}

\* The pairs of a desired and a current record of the plan of t that have
\* one identity key, each the last of its key on its side.
BothSides(t) ==
    {pair \in LastOf(obs[t].given) \X LastOf(cf_records[t]) :
        record_key(pair[1]) = record_key(pair[2])}

OpsFor(list, c) == {op \in Range(list) : op.current = Some(c)}

\* C20: update or noop.  For an identity key present on both sides the plan
\* holds an update iff the desired and the current record differ in
\* normalized content, ttl, priority or policy-resolved proxied flag, and the
\* change set of that update names exactly the fields that differ; when none
\* differs the plan holds a noop with no change set.
C20_UpdateIffDiffers ==
    \A t \in Threads :
        obs[t].planned =>
            \A pair \in BothSides(t) :
                LET fields == Differing(pair[1], pair[2])
                    updates == OpsFor(plan[t].updates, pair[2])
                    noops == OpsFor(plan[t].noops, pair[2])
                IN  IF fields # {}
                    THEN /\ Cardinality(updates) = 1
                         /\ noops = {}
                         /\ \A op \in updates : DOMAIN op.changes = fields
                    ELSE /\ updates = {}
                         /\ Cardinality(noops) = 1
                         /\ \A op \in noops : op.changes = None

\* One plan holds an update whose change set names priority and proxied and
\* nothing else beside a noop of a key on both sides.
C20_Witness ==
    \E t \in Threads :
        /\ obs[t].planned
        /\ \E op \in Range(plan[t].updates) : DOMAIN op.changes = {"priority", "proxied"}
        /\ \E pair \in BothSides(t) :
              /\ Differing(pair[1], pair[2]) = {}
              /\ OpsFor(plan[t].noops, pair[2]) # {}

\* An update names content and ttl while the proxied flag agrees.
C20_WitnessContent ==
    \E t \in Threads :
        /\ obs[t].planned
        /\ \E op \in Range(plan[t].updates) : DOMAIN op.changes = {"content", "ttl"}

\* A CNAME whose target differs in the trailing dot only is a noop.
C20_WitnessNoop ==
    \E t \in Threads :
        /\ obs[t].planned
        /\ \E op \in Range(plan[t].noops) :
              /\ op.record.type = T_CNAME
              /\ op.current # None
              /\ op.changes = None

\* The plan _compute_plan returns for the desired records as they are after
\* the call that planned for t.
PlannedAgain(t) ==
    _compute_plan(ExampleDomain, da_records[t], cf_records[t], settings.policy,
                  managed_record_types, settings.exclude_patterns)

\* C21: planning is side-effect-free.  After _compute_plan every desired
\* input record has every field as it was passed in (the current records are
\* only read), and a second call on the same records returns an equal plan.
C21_SideEffectFree ==
    \A t \in Threads :
        (obs[t].planned /\ pc[t] = "get_lock") =>
            /\ da_records[t] = obs[t].given
            /\ PlannedAgain(t) = plan[t]

\* The second call returns an equal plan although the records changed.
C21_SamePlan ==
    \A t \in Threads :
        (obs[t].planned /\ pc[t] = "get_lock") => PlannedAgain(t) = plan[t]

\* C28: ACME exemption from the NS/SOA filter.  A desired or current record
\* of type NS or SOA whose name starts with _acme-challenge (or whose fqdn
\* starts with _acme-challenge.) is kept: the plan holds an operation for it.
C28_AcmeNsSoaKept ==
    \A t \in Threads :
        obs[t].planned =>
            \A rec \in PlannedFrom(t) :
                (is_acme_challenge(rec) /\ upper(rec.type) \in {T_NS, T_SOA})
                    => InPlan(plan[t], rec)

\* The identity key an operation of a plan stands under.
OpKey(op) == record_key(IF op.action = "create" THEN op.record ELSE op.current[1])

Ascending(list) ==
    \A i \in 1..Len(list) : \A j \in (i + 1)..Len(list) : KeyLess(OpKey(list[i]), OpKey(list[j]))

DistinctKeys(list) ==
    \A i \in 1..Len(list) : \A j \in (i + 1)..Len(list) :
        record_key(list[i]) # record_key(list[j])

Orderings(list) ==
    {[i \in 1..Len(list) |-> list[p[i]]] : p \in Permutations(1..Len(list))}

\* C29: deterministic plan order.  In each list of a plan the operations are
\* in ascending identity-key order, and when no two records of a side share
\* an identity key _compute_plan returns that same plan for every ordering
\* of the desired and of the current records.
C29_DeterministicOrder ==
    \A t \in Threads :
        /\ Ascending(plan[t].creates) /\ Ascending(plan[t].updates)
        /\ Ascending(plan[t].deletes) /\ Ascending(plan[t].noops)
        /\ (obs[t].planned /\ pc[t] = "get_lock"
               /\ DistinctKeys(obs[t].given) /\ DistinctKeys(cf_records[t])) =>
              \A desired \in Orderings(obs[t].given) :
                  \A current \in Orderings(cf_records[t]) :
                      _compute_plan(ExampleDomain, desired, current, settings.policy,
                                    managed_record_types, settings.exclude_patterns)
                          = plan[t]

\* Three desired records came in descending key order and the plan creates
\* them in ascending order.
C29_Witness ==
    \E t \in Threads :
        /\ obs[t].planned /\ pc[t] = "get_lock"
        /\ Len(obs[t].given) = 3 /\ DistinctKeys(obs[t].given)
        /\ \A i \in 1..2 : KeyLess(record_key(obs[t].given[i + 1]), record_key(obs[t].given[i]))
        /\ Len(plan[t].creates) = 3

\* The contents and target ids the operations of a plan carry on the desired
\* and on the current side.
DesiredIn(p) ==
    {<<record_key(op.record), op.record.content>> :
        op \in {o \in PlanEntries(p) : o.action \in {"create", "update"}
                                         \/ (o.action = "noop" /\ o.record.cf_id = None)}}

CurrentIn(p) ==
    {<<record_key(op.current[1]), op.current[1].cf_id>> :
        op \in {o \in PlanEntries(p) : o.current # None}}

\* C30: last-write-wins.  When several kept records of one side share an
\* identity key, the plan holds an operation for the last of them in input
\* order only: the earlier ones are in no list of the plan.
C30_LastWriteWins ==
    \A t \in Threads :
        obs[t].planned =>
            /\ \A rec \in LastOf(obs[t].given) :
                  \A entry \in DesiredIn(plan[t]) :
                      entry[1] = record_key(rec) => entry[2] = rec.content
            /\ \A rec \in LastOf(cf_records[t]) :
                  \E entry \in CurrentIn(plan[t]) : entry = <<record_key(rec), rec.cf_id>>
            /\ \A rec \in Shadowed(cf_records[t]) :
                  <<record_key(rec), rec.cf_id>> \notin CurrentIn(plan[t])
            /\ \A rec \in LastOf(obs[t].given) : InPlan(plan[t], rec)

\* Two desired and two current records of one key were planned.
C30_Witness ==
    \E t \in Threads :
        /\ obs[t].planned
        /\ Shadowed(obs[t].given) # {}
        /\ Shadowed(cf_records[t]) # {}
        /\ \E rec \in Shadowed(obs[t].given) :
              \A last \in LastOf(obs[t].given) : last.content # rec.content

\* get_dns_records was called and the call is over.
DaCallOver == client.fn = "get_dns_records" /\ client.at \in {"returned", "raised"}

\* C22: source fail-open.  Whenever the source answers the record query with
\* a status outside 200..299, get_dns_records returns an empty list and
\* raises nothing.
C22_SourceFailOpen ==
    (DaCallOver /\ ~(200 <= client.answer.status /\ client.answer.status < 300)) =>
        /\ client.at = "returned"
        /\ client.raised = None
        /\ client.records = <<>>

\* The same for the 4xx and 5xx answers alone.
C22_ErrorStatus ==
    (DaCallOver /\ 400 <= client.answer.status /\ client.answer.status < 600) =>
        /\ client.at = "returned"
        /\ client.raised = None
        /\ client.records = <<>>

C22_ErrorStatusReached ==
    /\ DaCallOver /\ client.answer.status = 500
    /\ (client.answer.rows # <<>> \/ client.answer.lines # <<>>)

\* find_zone_by_name was called and the call is over.
ZoneCallOver == client.fn = "find_zone_by_name" /\ client.at \in {"returned", "raised"}

\* The status of the last response the zone lookup got.
LastStatus(server) ==
    IF server.flaky > RetryTotal THEN server.flaky_status ELSE server.status

\* C23: zone lookup.  find_zone_by_name raises nothing; it returns none
\* whenever the lookup ends in a response with a status outside 200..299 or
\* in an empty result set, and otherwise the id of the first zone of the
\* result.
C23_ZoneLookup ==
    ZoneCallOver =>
        /\ client.at = "returned"
        /\ client.raised = None
        /\ client.returned =
              IF ~(200 <= LastStatus(client.answer) /\ LastStatus(client.answer) < 300)
                 \/ client.answer.result = <<>>
              THEN None
              ELSE Some(client.answer.result[1])

\* The same for the lookups that end in a response the retrying session
\* hands back with status 200 or 404.
C23_HandedBack ==
    (ZoneCallOver /\ client.answer.flaky <= RetryTotal
        /\ client.answer.status \in {200, 404}) =>
        /\ client.at = "returned"
        /\ client.returned =
              IF client.answer.status = 404 \/ client.answer.result = <<>> THEN None
              ELSE Some(client.answer.result[1])

\* list_dns_records was called on a zone whose every page is served.
Listing == client.fn = "list_dns_records" /\ client.answer.fail_page = 0

\* C24: pagination.  list_dns_records terminates; it requests the pages 1,
\* 2, ... in order, stops after the first page that holds fewer rows than
\* the page size (100), and returns every row of every fetched page exactly
\* once, in page order.
C24_Pagination ==
    /\ [](Listing =>
            /\ client.pages = [i \in 1..Len(client.pages) |-> i]
            /\ \A i \in 1..Len(client.pages) :
                  Len(PageOf(client.answer, i)) < per_page
                      => (i = Len(client.pages) /\ client.at = "returned")
            /\ client.at = "returned" =>
                  /\ client.pages # <<>>
                  /\ Len(PageOf(client.answer, Len(client.pages))) < per_page
            /\ client.records =
                  [i \in 1..(IF client.at = "returned" THEN client.answer.n
                              ELSE per_page * Len(client.pages)) |->
                      normalize_cf_record(ListingRow(i))])
    /\ (Listing ~> client.at = "returned")

\* A listing of two full pages and a third page of one row has returned.
C24_Witness ==
    /\ Listing /\ client.at = "returned"
    /\ client.pages = <<1, 2, 3>>
    /\ Len(client.records) = 2 * per_page + 1

\* A listing whose last row fills a page has returned after an empty page.
C24_WitnessFull ==
    /\ Listing /\ client.at = "returned"
    /\ client.answer.n = per_page
    /\ client.pages = <<1, 2>>

\* The string has no upper-case letter and does not end with a dot.
Canonical(str) ==
    /\ \A i \in 1..Len(str) : \A u \in 1..Len(UpperAlpha) : str[i] # UpperAlpha[u]
    /\ str # <<>> => str[Len(str)] # "."

\* The records a client call has produced so far.
Produced == IF client.fn \in {"get_dns_records", "list_dns_records"} THEN Range(client.records)
            ELSE {}

\* C25: canonical fqdn.  Every record that normalize_da_record or
\* normalize_cf_record produces has an fqdn that is all lower case and does
\* not end with a dot.
C25_FqdnCanonical == \A rec \in Produced : Canonical(rec.fqdn)

\* The same for the records of normalize_cf_record alone.
C25_TargetFqdnCanonical ==
    client.fn = "list_dns_records" => \A rec \in Produced : Canonical(rec.fqdn)

C25_TargetReached ==
    /\ client.fn = "list_dns_records" /\ client.at = "returned"
    /\ \E i \in 1..Len(client.records) :
          ~Canonical(ListingRow(i).name) /\ Canonical(client.records[i].fqdn)

\* The raw names of the rows of a JSON answer that DirectAdmin gave with
\* status 200, by position.
RawNameAt(i) ==
    IF client.answer.rows[i].name = None THEN <<>> ELSE client.answer.rows[i].name[1]

JsonAnswered ==
    /\ client.fn = "get_dns_records" /\ client.at = "returned"
    /\ client.answer.status = 200 /\ client.answer.json

C26_WitnessEmpty ==
    /\ JsonAnswered
    /\ \E i \in 1..Len(client.records) :
          /\ client.answer.rows[i].name = Some(<<>>)
          /\ client.records[i].fqdn = ExampleDomain

\* The string starts and ends with a double quote.
Quoted(str) == Len(str) >= 2 /\ str[1] = "\"" /\ str[Len(str)] = "\""

Blank(c) == c \in {" ", "\t"}

\* C27: TXT content.  The result of normalize_txt_content is not wrapped in
\* double quotes, neither starts nor ends with whitespace and holds no two
\* whitespace characters in a row.
C27_TxtNormalized ==
    \A rec \in Produced :
        rec.type = T_TXT =>
            /\ ~Quoted(rec.content)
            /\ rec.content # <<>> =>
                  ~Blank(rec.content[1]) /\ ~Blank(rec.content[Len(rec.content)])
            /\ \A i \in 1..(Len(rec.content) - 1) :
                  ~(Blank(rec.content[i]) /\ Blank(rec.content[i + 1]))

\* The same without the part about the quotes.
C27_Whitespace ==
    \A rec \in Produced :
        rec.type = T_TXT =>
            /\ rec.content # <<>> =>
                  ~Blank(rec.content[1]) /\ ~Blank(rec.content[Len(rec.content)])
            /\ \A i \in 1..(Len(rec.content) - 1) :
                  ~(Blank(rec.content[i]) /\ Blank(rec.content[i + 1]))

\* Two strings are the same when case is ignored.
SameIgnoringCase(a, b) ==
    /\ Len(a) = Len(b)
    /\ \A i \in 1..Len(a) : lowerChar(a[i]) = lowerChar(b[i])

IsMxOrSrv(type) == SameIgnoringCase(type, T_MX) \/ SameIgnoringCase(type, T_SRV)

\* C31: record_key gives two records one key exactly when their types are
\* the same ignoring case, their fqdns are the same ignoring case and, for
\* MX and SRV only, their priorities are the same with an unset priority
\* counting as 0.
C31_RecordKey ==
    client.fn = "record_key" =>
        LET a == client.answer[1]
            b == client.answer[2]
        IN  (client.returned[1] = client.returned[2])
            <=> /\ SameIgnoringCase(a.type, b.type)
                /\ SameIgnoringCase(a.fqdn, b.fqdn)
                /\ IsMxOrSrv(a.type) => OrZero(a.priority) = OrZero(b.priority)

\* Two MX records that differ in case and in an unset against a 0 priority
\* have one key.
C31_Witness ==
    /\ client.fn = "record_key"
    /\ client.answer[1].type = T_MX /\ client.answer[2].type = <<"m","x">>
    /\ client.answer[1].fqdn # client.answer[2].fqdn
    /\ client.answer[1].priority = None /\ client.answer[2].priority = Some(0)
    /\ client.returned[1] = client.returned[2]

\* Two A records of different priorities have one key.
C31_WitnessOtherType ==
    /\ client.fn = "record_key"
    /\ client.answer[1].type = T_A /\ client.answer[2].type = T_A
    /\ client.answer[1].priority = Some(10) /\ client.answer[2].priority = None
    /\ client.returned[1] = client.returned[2]

\* Two MX records of different priorities have two keys.
C31_WitnessPriority ==
    /\ client.fn = "record_key"
    /\ client.answer[1].type = T_MX /\ client.answer[2].type = T_MX
    /\ client.answer[1].fqdn = client.answer[2].fqdn
    /\ client.answer[1].priority = Some(10) /\ client.answer[2].priority = Some(0)
    /\ client.returned[1] # client.returned[2]

\* C32: the payload of a record has its type, its fqdn as name and its
\* content, a TXT content in double quotes unless it starts and ends with
\* one; the ttl iff it is set and not 0; the priority iff the type is MX or
\* SRV and it is set; proxied iff the type is A, AAAA or CNAME and it is
\* set; the comment iff it is not empty.
C32_Payload ==
    client.fn = "_to_cf_payload" =>
        LET rec == client.answer[1]
            payload == client.returned[1]
            quoted == rec.content # <<>> /\ rec.content[1] = "\""
                      /\ rec.content[Len(rec.content)] = "\""
            addressed == \E type \in {T_A, T_AAAA, T_CNAME} : SameIgnoringCase(rec.type, type)
        IN  /\ payload.type = rec.type
            /\ payload.name = rec.fqdn
            /\ payload.content = IF SameIgnoringCase(rec.type, T_TXT) /\ ~quoted
                                 THEN <<"\"">> \o rec.content \o <<"\"">>
                                 ELSE rec.content
            /\ payload.ttl = IF rec.ttl # None /\ rec.ttl # Some(0) THEN rec.ttl ELSE None
            /\ payload.priority = IF IsMxOrSrv(rec.type) THEN rec.priority ELSE None
            /\ payload.proxied = IF addressed THEN rec.proxied ELSE None
            /\ payload.comment = IF rec.comment # None /\ rec.comment # Some(<<>>)
                                 THEN rec.comment ELSE None

\* A TXT record of an unquoted content, a ttl of 0, a priority and an empty
\* comment: the content is wrapped and the three fields are left out.
C32_Witness ==
    /\ client.fn = "_to_cf_payload"
    /\ client.answer[1].type = T_TXT /\ client.answer[1].content = <<"v">>
    /\ client.answer[1].ttl = Some(0) /\ client.answer[1].priority = Some(10)
    /\ client.answer[1].comment = Some(<<>>)
    /\ client.returned[1].content = <<"\"","v","\"">>
    /\ client.returned[1].ttl = None /\ client.returned[1].priority = None

\* An MX record with everything set: ttl, priority and comment are there.
C32_WitnessSet ==
    /\ client.fn = "_to_cf_payload"
    /\ client.answer[1].type = T_MX
    /\ client.returned[1].ttl = Some(300) /\ client.returned[1].priority = Some(0)
    /\ client.returned[1].comment = Some(<<"c">>) /\ client.returned[1].proxied = None
    /\ client.answer[1].proxied = Some(TRUE)

\* The requests of the zone lookup that were answered with a status of the
\* forcelist, one after the other from the first on.
ForcedAnswers ==
    {i \in 1..client.attempts :
        \A j \in 1..i : StatusAt(client.answer, j) \in status_forcelist}

\* C33: the retry budget of the target adapter.  One call makes at most 5
\* HTTP attempts, makes a further attempt only after a response with status
\* 429, 500, 502, 503 or 504, and raises when the attempts are used up.
C33_RetryBudget ==
    ZoneCallOver =>
        /\ client.attempts <= 5
        /\ \A i \in 1..(client.attempts - 1) : i \in ForcedAnswers
        /\ client.attempts \in ForcedAnswers => client.raised # None

\* The same with the budget the session has: the first attempt and
\* Retry(total=5) further ones.
C33_RetriesBounded ==
    ZoneCallOver =>
        /\ client.attempts <= RetryTotal + 1
        /\ \A i \in 1..(client.attempts - 1) : i \in ForcedAnswers
        /\ client.attempts \in ForcedAnswers =>
              client.raised # None /\ client.attempts = RetryTotal + 1

\* A lookup that was answered on its sixth attempt, and one that raised
\* after six.
C33_SixthAttempt ==
    /\ ZoneCallOver
    /\ client.attempts = 6
    /\ client.raised = None
    /\ client.returned = Some(ZoneId)

C33_Exhausted == ZoneCallOver /\ client.attempts = 6 /\ client.raised = Some("RetryError")

\* list_domain_pointers was called last.
PointersListed == adapter.fn = "list_domain_pointers"

\* The endpoints that answered the last call with HTTP 200.
Answered200 ==
    {i \in 1..Len(adapter.answers) :
        ~adapter.answers[i].raised /\ adapter.answers[i].status = 200}

\* The domains a body names, as keys or as values.
NamedIn(body) ==
    {d \in {S_alias, S_alias2, ExampleDomain} :
        \E i \in 1..Len(body) : \E side \in 1..2 :
            Len(body[i][side]) = Len(d)
            /\ \A c \in 1..Len(d) :
                  body[i][side][c] = d[c] \/ (body[i][side][c] = "_" /\ d[c] = ".")}

\* C34: list_domain_pointers accepts the first endpoint that answers 200.
\* Its result is the pointer set of that endpoint, later endpoints add
\* nothing, and with no endpoint answering 200 the result is empty.
C34_FirstEndpoint ==
    PointersListed =>
        IF Answered200 = {}
        THEN adapter.returned = <<>>
        ELSE LET first == CHOOSE i \in Answered200 : \A j \in Answered200 : i <= j
             IN  Range(adapter.returned) = NamedIn(adapter.answers[first].body)

\* What holds instead: the result is made of the pointers of every endpoint
\* that answered 200, and an endpoint that failed or answered another status
\* adds nothing.
C34_EveryEndpoint ==
    PointersListed =>
        Range(adapter.returned) = UNION {NamedIn(adapter.answers[i].body) : i \in Answered200}

\* Both endpoints answered 200, with different pointers.
C34_BothAnswered ==
    /\ PointersListed
    /\ Answered200 = {1, 2}
    /\ NamedIn(adapter.answers[1].body) = {S_alias}
    /\ NamedIn(adapter.answers[2].body) = {S_alias2}
    /\ Range(adapter.returned) = {S_alias, S_alias2}

\* The first endpoint failed and the second answered 200.
C34_PassedOver ==
    /\ PointersListed
    /\ adapter.answers[1].raised
    /\ Answered200 = {2}
    /\ adapter.returned = <<S_alias>>

\* C35: lazy population happens once.  Over the calls made on one adapter,
\* list_domains is triggered by lazy population at most once, and a
\* resolve_base_domain call whose list_domains failed returns its input.
C35_LazyOnce ==
    /\ adapter.lazy <= 1
    /\ (adapter.fn = "resolve_base_domain" /\ adapter.failed) => adapter.returned = adapter.arg

\* What holds instead: a call populates exactly when it finds pointer_map
\* empty, and a resolve_base_domain call whose list_domains failed returns
\* its input.
C35_LazyWhenEmpty ==
    /\ adapter.fn \in {"resolve_base_domain", "get_dns_records"} =>
          (adapter.populated <=> DOMAIN adapter.before = {})
    /\ (adapter.fn = "resolve_base_domain" /\ adapter.failed) => adapter.returned = adapter.arg

\* Two calls in a row populated: the first found no pointer.
C35_PopulatedTwice ==
    /\ adapter.lazy = 2
    /\ adapter.fn = "resolve_base_domain"
    /\ ~adapter.failed
    /\ DOMAIN adapter.pointer_map # {}
    /\ adapter.arg = S_alias /\ adapter.returned = ExampleDomain

\* A resolve_base_domain call whose list_domains failed.
C35_FailedReached ==
    /\ adapter.fn = "resolve_base_domain"
    /\ adapter.failed
    /\ adapter.arg = S_alias

\* The create calls the target received.
CreateCalls == {call \in calls : call.kind = "create"}

\* C36: no duplicate creation under racing triggers.  However two runs of
\* the domain interleave, the target receives no two create calls for one
\* identity key.
C36_NoDuplicateCreate ==
    \A a \in CreateCalls : \A b \in CreateCalls :
        (a.rtype = b.rtype /\ lower(a.fqdn) = lower(b.fqdn)) => a.by = b.by

\* The target holds two rows of one identity key, each made by a create
\* call that the run made holding the one lock of the domain.
C36_DuplicateRows ==
    /\ Len(locks) = 1
    /\ \A call \in CreateCalls : call.locked
    /\ \E i \in 1..Len(cf_rows) : \E j \in 1..Len(cf_rows) :
          /\ i # j
          /\ record_key(normalize_cf_record(cf_rows[i])) = record_key(normalize_cf_record(cf_rows[j]))

\* created + updated + deleted + skipped + noop of the apply of t
Counted(t) ==
    counts[t].created + counts[t].updated + counts[t].deleted + counts[t].skipped
    + counts[t].noop

\* C37: outcome conservation.  After every apply that reached the dispatch
\* of the operations, created + updated + deleted + skipped + noop + the
\* number of entries of the error list is the number of operations of the
\* plan.
C37_OutcomeConservation ==
    \A t \in Threads :
        Applied(t) => Counted(t) + Len(counts[t].errors) = Len(plan_ops(plan[t]))

\* The same with the create and update calls that raised in place of the
\* entries of the error list.
C37_CountedOrRaised ==
    \A t \in Threads :
        Applied(t) =>
            Counted(t) + obs[t].create_raised + obs[t].update_raised = Len(plan_ops(plan[t]))

\* An apply of several operations of which one raised is over.
C37_RaisedReached ==
    \E t \in Threads :
        /\ Applied(t)
        /\ Len(plan_ops(plan[t])) >= 2
        /\ obs[t].create_raised + obs[t].update_raised = 1
        /\ Len(counts[t].errors) = 1

\* The identity keys of the kept records of a list.
KeptKeys(list) ==
    {record_key(list[i]) : i \in {j \in 1..Len(list) : kept(list[j], settings.exclude_patterns)}}

\* The places of a plan: the list and the index of each of its operations.
Places(p) ==
    {<<"creates", i>> : i \in 1..Len(p.creates)} \cup {<<"updates", i>> : i \in 1..Len(p.updates)}
    \cup {<<"deletes", i>> : i \in 1..Len(p.deletes)} \cup {<<"noops", i>> : i \in 1..Len(p.noops)}

OpAt(p, place) == p[place[1]][place[2]]

\* C38: plan partition.  The plan holds exactly one operation for each
\* identity key of the kept desired and the kept current records and none
\* for any other key; a create has no current record; an update and a
\* delete carry the current record of their own key.
C38_PlanPartition ==
    \A t \in Threads :
        obs[t].planned =>
            LET keys == KeptKeys(obs[t].given) \cup KeptKeys(cf_records[t])
                places == Places(plan[t])
            IN  /\ \A key \in keys :
                      Cardinality({place \in places : OpKey(OpAt(plan[t], place)) = key}) = 1
                /\ \A place \in places : OpKey(OpAt(plan[t], place)) \in keys
                /\ \A op \in Range(plan[t].creates) :
                      op.current = None /\ OpKey(op) \notin KeptKeys(cf_records[t])
                /\ \A op \in Range(plan[t].updates) \cup Range(plan[t].deletes) :
                      /\ op.current # None
                      /\ record_key(op.current[1]) = record_key(op.record)
                      /\ op.current[1] \in Range(cf_records[t])

\* A plan of creates, of operations on both sides and of a current record of
\* an unmanaged type, from a target zone that holds an NS record.
C38_Witness ==
    \E t \in Threads :
        /\ obs[t].planned
        /\ Len(plan[t].creates) >= 2
        /\ Len(plan[t].updates) + Len(plan[t].noops) >= 2
        /\ \E op \in Range(plan[t].noops) : upper(op.record.type) = T_PTR
        /\ \E rec \in Range(cf_records[t]) : upper(rec.type) = T_NS

\* A plan with a delete.
C38_WitnessDelete ==
    \E t \in Threads :
        /\ obs[t].planned
        /\ \E op \in Range(plan[t].deletes) : op.current = Some(op.record)

\* apply_plan of t was called and has not returned.
InApplyPlan(t) ==
    pc[t] \in {"get_lock", "get_lock_create", "get_lock_return", "acquire", "apply_find_zone",
               "dispatch", "workers", "release"}

\* The run of t is over: a final status and a finish time.
RunOver(t) == run[t].status \in {"success", "partial", "failed"} /\ run[t].finished

\* C39: run lifecycle.  Every apply_plan call has set its run to running
\* when it takes the lock; with every target call returning or raising it
\* returns, and when it has returned the run has a final status and a
\* finish time and is not left running.
C39_RunLifecycle ==
    /\ [](\A t \in Threads :
            pc[t] \in {"acquire", "apply_find_zone", "dispatch", "workers"} =>
                run[t].status = "running")
    /\ \A t \in Threads : InApplyPlan(t) ~> (pc[t] = "done" /\ RunOver(t))
    /\ [](\A t \in Threads : pc[t] = "done" => RunOver(t))

\* Both triggers' apply_plan returned, one after a failed zone lookup and
\* one after operations of which one raised.
C39_Witness ==
    \E t \in Threads : \E u \in Threads \ {t} :
        /\ pc[t] = "done" /\ run[t].status = "failed" /\ run[t].finished
        /\ pc[u] = "done" /\ run[u].status = "partial" /\ run[u].finished
        /\ obs[u].dispatched

\* An apply_plan returned with every operation done.
C39_WitnessSuccess ==
    \E t \in Threads :
        pc[t] = "done" /\ run[t].status = "success" /\ run[t].finished /\ obs[t].mutations > 0

====
